---- MODULE Spec2Model ----
(***************************************************************************)
(* A model of LocalFileMemoryService                                       *)
(* (custom_components/google_adk/local_memory_service.py): the persisted,  *)
(* lazily hydrated store of per-user conversation turns, its keyword       *)
(* search and its background summarization.                                *)
(*                                                                         *)
(* Python strings are TLA+ strings; the characters of those that are      *)
(* tokenized (texts, queries) are tabulated in TextChars.  An optional     *)
(* value is a sequence of length 0 (None) or 1.                            *)
(* A Python dict whose iteration order is observable is a record           *)
(* [keys, val]: the keys in insertion order and the mapping.               *)
(***************************************************************************)
EXTENDS Integers, Sequences, FiniteSets, TLC

None == <<>>
Some(x) == <<x>>

Range(s) == {s[i] : i \in DOMAIN s}

\* ------------------------------------------------------------- constants

SUMMARIZATION_THRESHOLD == 25
METADATA_KEY == "__metadata__"
SUMMARIES_KEY == "__summaries__"
ReservedKeys == {METADATA_KEY, SUMMARIES_KEY}

\* The text that prefixes a summary (line 144).
MemorySummaryPrefix == "Memory Summary: "

\* ----------------------------------------------------------------- dicts

EmptyDict == [keys |-> <<>>, val |-> <<>>]

DictHas(d, k) == k \in DOMAIN d.val

DictGet(d, k, default) == IF DictHas(d, k) THEN d.val[k] ELSE default

\* d[k] = v: an existing key keeps its place, a new key goes last.
DictSet(d, k, v) ==
    [keys |-> IF DictHas(d, k) THEN d.keys ELSE Append(d.keys, k),
     val  |-> [x \in DOMAIN d.val \cup {k} |-> IF x = k THEN v ELSE d.val[x]]]

\* A plain mapping (iteration order not observable).
EmptyMap == <<>>

MapGet(m, k, default) == IF k \in DOMAIN m THEN m[k] ELSE default

MapSet(m, k, v) == [x \in DOMAIN m \cup {k} |-> IF x = k THEN v ELSE m[x]]

\* ----------------------------------------------------------------- texts

\* Texts of event parts.  "" stands for a part without text as well (a part
\* whose text is None): the code only tests part.text for truth.
TextPhone == "My 12."
TextPets == "a_b"
TextEmpty == ""

\* Queries: a word in another case than the stored one, several words of
\* which one is a prefix of a stored word, and no word at all.
QueryCase == "mY?"
QueryWords == "1 A_b b"
QueryNoWord == "."

\* What the summarization client returns for response.text, in this run
\* and in an earlier one.
ClientText == "my 12"
EarlierSummary == "b"

\* The characters of the texts that are tokenized.
MemorySummaryChars ==
    <<"M","e","m","o","r","y"," ","S","u","m","m","a","r","y",":"," ">>

TextChars ==
    { <<TextPhone, <<"M","y"," ","1","2",".">> >>,
      <<TextPets, <<"a","_","b">> >>,
      <<TextEmpty, <<>> >>,
      <<QueryCase, <<"m","Y","?">> >>,
      <<QueryWords, <<"1"," ","A","_","b"," ","b">> >>,
      <<QueryNoWord, <<".">> >>,
      <<MemorySummaryPrefix \o ClientText,
        MemorySummaryChars \o <<"m","y"," ","1","2">> >>,
      <<MemorySummaryPrefix \o EarlierSummary, MemorySummaryChars \o <<"b">> >> }

Texts == {pair[1] : pair \in TextChars}

Chars == [text \in Texts |-> (CHOOSE pair \in TextChars : pair[1] = text)[2]]

\* ------------------------------------------------------------ characters

LowerCase ==
    [A |-> "a", M |-> "m", S |-> "s", Y |-> "y"]

Letters == {"a","b","e","m","o","r","s","u","y"} \cup DOMAIN LowerCase
Digits == {"1","2"}

\* The characters matched by the regular expression \w.
WordChars == Letters \cup Digits \cup {"_"}

IsWordChar(c) == c \in WordChars

\* str.lower() on one character.
LowerChar(c) == IF c \in DOMAIN LowerCase THEN LowerCase[c] ELSE c

Lower(w) == [i \in DOMAIN w |-> LowerChar(w[i])]

\* re.findall(r"\w+", text) from position i on, text given by its
\* characters: the maximal runs of word characters, left to right.  start
\* is where the run being read began, or 0 when position i - 1 is outside
\* a run.
RECURSIVE FindAllWords(_, _, _)
FindAllWords(text, i, start) ==
    IF i > Len(text)
    THEN IF start = 0 THEN <<>> ELSE <<SubSeq(text, start, Len(text))>>
    ELSE IF IsWordChar(text[i])
         THEN FindAllWords(text, i + 1, IF start = 0 THEN i ELSE start)
         ELSE (IF start = 0 THEN <<>> ELSE <<SubSeq(text, start, i - 1)>>)
              \o FindAllWords(text, i + 1, 0)

\* Lines 48-50, tabulated on the texts of the model.
WordsLower ==
    [text \in Texts |-> {Lower(w) : w \in Range(FindAllWords(Chars[text], 1, 0))}]

_extract_words_lower(text) == WordsLower[text]

\* sep.join(texts)
RECURSIVE Join(_, _)
Join(sep, texts) ==
    IF texts = <<>> THEN ""
    ELSE IF Len(texts) = 1 THEN texts[1]
    ELSE texts[1] \o sep \o Join(sep, Tail(texts))

\* A faulty variant of _user_key, which leaves the user out of the key;
\* UserIsolation rejects it.
_user_key_app_only(app_name, user_id) == app_name \o "/"

_user_key(app_name, user_id) == app_name \o "/" \o user_id

\* datetime.fromtimestamp(ts).isoformat() and datetime.now().isoformat():
\* the ISO-8601 string of an instant.
IsoFormat(ts) == "T" \o ToString(ts)

\* ---------------------------------------------------------------- inputs

\* Events as the caller's Session carries them (google.adk Event): author,
\* timestamp in seconds, optional content with optional role and parts.
EvUser ==
    [author |-> "user", timestamp |-> 5,
     content |-> Some([role |-> Some("user"),
                       parts |-> <<[text |-> TextPhone]>>])]
EvModel ==
    [author |-> "model", timestamp |-> 0,
     content |-> Some([role |-> None,
                       parts |-> <<[text |-> TextEmpty], [text |-> TextPets]>>])]
EvNoContent ==
    [author |-> "user", timestamp |-> 5, content |-> None]
EvNoParts ==
    [author |-> "user", timestamp |-> 5,
     content |-> Some([role |-> Some("user"), parts |-> <<>>])]
EvEmptyText ==
    [author |-> "model", timestamp |-> 5,
     content |-> Some([role |-> Some("model"),
                       parts |-> <<[text |-> TextEmpty]>>])]

Apps == {"app"}
Users == {"u1", "u2"}
Session(id, user_id, events) ==
    [id |-> id, app_name |-> "app", user_id |-> user_id, events |-> events]

\* The sessions callers submit: without events, with events that have no
\* content or no parts, with one event whose only part has no text, with
\* one event with text, and with three events of which two have text.
Sessions ==
    { Session("s1", "u1", <<>>),
      Session("s1", "u1", <<EvNoContent, EvNoParts>>),
      Session("s2", "u1", <<EvEmptyText>>),
      Session("s1", "u1", <<EvUser>>),
      Session("s2", "u1", <<EvModel>>),
      Session("s1", "u2", <<EvModel, EvNoContent, EvUser>>) }

Queries == {QueryCase, QueryWords, QueryNoWord}

\* The searches callers make: (app_name, user_id, query).
Searches ==
    { <<"app", "u1", QueryCase>>, <<"app", "u2", QueryWords>>,
      <<"app", "u2", QueryNoWord>> }

\* What the summarization client may return for response.text.
ClientTexts == {ClientText}

\* datetime.now() at a summarization.
Now == 9

\* ------------------------------------------------- add_session_to_memory

\* A faulty variant of SerializeEvents, which keeps only the first part of
\* an event; RoundTrip rejects it.
RECURSIVE SerializeEventsFirstPart(_)
SerializeEventsFirstPart(events) ==
    IF events = <<>> THEN <<>>
    ELSE LET event == Head(events)
             rest == SerializeEventsFirstPart(Tail(events))
         IN IF event.content = None \/ event.content[1].parts = <<>>
            THEN rest
            ELSE LET content == event.content[1]
                     event_data ==
                       [timestamp |-> IF event.timestamp # 0
                                      THEN Some(IsoFormat(event.timestamp))
                                      ELSE None,
                        author |-> event.author,
                        content |->
                          [role |-> content.role,
                           parts |-> SelectSeq(SubSeq(content.parts, 1, 1),
                                               LAMBDA part : part.text # "")]]
                 IN <<event_data>> \o rest

\* Lines 168-187: the events converted to their serializable form.  An
\* event without content or without parts is skipped; of the others, the
\* parts with text are kept.
RECURSIVE SerializeEvents(_)
SerializeEvents(events) ==
    IF events = <<>> THEN <<>>
    ELSE LET event == Head(events)
             rest == SerializeEvents(Tail(events))
         IN IF event.content = None \/ event.content[1].parts = <<>>
            THEN rest
            ELSE LET content == event.content[1]
                     event_data ==
                       [timestamp |-> IF event.timestamp # 0
                                      THEN Some(IsoFormat(event.timestamp))
                                      ELSE None,
                        author |-> event.author,
                        content |->
                          [role |-> content.role,
                           parts |-> SelectSeq(content.parts,
                                               LAMBDA part : part.text # "")]]
                 IN <<event_data>> \o rest

\* A faulty variant of StoreSession, which is the document as it would be
\* seen between the two writes were they made in separate steps, the
\* counter first: total_turns is incremented and the session is not yet
\* stored; TurnsVisibleWithCount rejects it.
StoreSessionCountOnly(doc, session, serializable_events, new_turns) ==
    LET user_key == _user_key(session.app_name, session.user_id)
        user_data0 == MapGet(doc, user_key, EmptyDict)
        metadata == DictGet(user_data0, METADATA_KEY, EmptyMap)
        total_turns == MapGet(metadata, "total_turns", 0) + new_turns
        metadata1 == MapSet(metadata, "total_turns", total_turns)
    IN MapSet(doc, user_key, DictSet(user_data0, METADATA_KEY, metadata1))

\* A faulty variant of StoreSession, which writes a new metadata dict with
\* total_turns only; AddChangesOnlyItsSession rejects it.
StoreSessionNewMetadata(doc, session, serializable_events, new_turns) ==
    LET user_key == _user_key(session.app_name, session.user_id)
        user_data0 == MapGet(doc, user_key, EmptyDict)
        user_data1 == DictSet(user_data0, session.id, serializable_events)
        metadata == DictGet(user_data1, METADATA_KEY, EmptyMap)
        total_turns == MapGet(metadata, "total_turns", 0) + new_turns
        metadata1 == MapSet(EmptyMap, "total_turns", total_turns)
    IN MapSet(doc, user_key, DictSet(user_data1, METADATA_KEY, metadata1))

\* A faulty variant of StoreSession, which appends the events to those
\* already stored under the session id; ReingestionReplaces rejects it.
StoreSessionMerge(doc, session, serializable_events, new_turns) ==
    LET user_key == _user_key(session.app_name, session.user_id)
        user_data0 == MapGet(doc, user_key, EmptyDict)
        user_data1 == DictSet(user_data0, session.id,
                              DictGet(user_data0, session.id, <<>>)
                              \o serializable_events)
        metadata == DictGet(user_data1, METADATA_KEY, EmptyMap)
        total_turns == MapGet(metadata, "total_turns", 0) + new_turns
        metadata1 == MapSet(metadata, "total_turns", total_turns)
    IN MapSet(doc, user_key, DictSet(user_data1, METADATA_KEY, metadata1))

\* Lines 192-202: the mutation made under self._lock, on the document.
\* Returns the new document.
StoreSession(doc, session, serializable_events, new_turns) ==
    LET user_key == _user_key(session.app_name, session.user_id)
        user_data0 == MapGet(doc, user_key, EmptyDict)
        user_data1 == DictSet(user_data0, session.id, serializable_events)
        metadata == DictGet(user_data1, METADATA_KEY, EmptyMap)
        total_turns == MapGet(metadata, "total_turns", 0) + new_turns
        metadata1 == MapSet(metadata, "total_turns", total_turns)
    IN MapSet(doc, user_key, DictSet(user_data1, METADATA_KEY, metadata1))

\* metadata.get(name, 0) of a user of a document.
MetadataGet(doc, user_key, name) ==
    MapGet(DictGet(MapGet(doc, user_key, EmptyDict), METADATA_KEY, EmptyMap),
           name, 0)

TotalTurns(doc, user_key) == MetadataGet(doc, user_key, "total_turns")

LastSummarized(doc, user_key) ==
    MetadataGet(doc, user_key, "last_summarized_turn_count")

\* ----------------------------------------------------------- search_memory

\* Lines 234-236: the text of a stored event, its parts joined by a space.
TextContent(event_data) ==
    Join(" ", [i \in DOMAIN event_data.content.parts |->
                     event_data.content.parts[i].text])

\* Lines 238-242: whether a stored event matches the query words.
EventMatches(event_data, words_in_query) ==
    LET words_in_event == _extract_words_lower(TextContent(event_data))
    IN /\ words_in_event # {}
       /\ \E query_word \in words_in_query : query_word \in words_in_event

\* Lines 243-254: the MemoryEntry reconstructed from a stored event.
MemoryEntry(event_data) ==
    [content |-> [role |-> event_data.content.role,
                  parts |-> event_data.content.parts],
     author |-> event_data.author,
     timestamp |-> IF event_data.timestamp = None THEN ""
                   ELSE event_data.timestamp[1]]

\* Lines 232-254: _search_events, the entries appended for a list of events.
RECURSIVE _search_events(_, _)
_search_events(events, words_in_query) ==
    IF events = <<>> THEN <<>>
    ELSE (IF EventMatches(Head(events), words_in_query)
          THEN <<MemoryEntry(Head(events))>> ELSE <<>>)
         \o _search_events(Tail(events), words_in_query)

\* Lines 260-263: the loop over the user's dict, reserved keys skipped.
RECURSIVE SearchSessions(_, _, _)
SearchSessions(user_data, keys, words_in_query) ==
    IF keys = <<>> THEN <<>>
    ELSE (IF Head(keys) \in ReservedKeys THEN <<>>
          ELSE _search_events(user_data.val[Head(keys)], words_in_query))
         \o SearchSessions(user_data, Tail(keys), words_in_query)

\* A faulty variant of search_memory, which scans the sessions before the
\* summaries; SearchIsFilteredScan rejects it.
search_memory_sessions_first(doc, app_name, user_id, query) ==
    LET user_key == _user_key(app_name, user_id)
        user_data == MapGet(doc, user_key, EmptyDict)
        words_in_query == _extract_words_lower(query)
    IN SearchSessions(user_data, user_data.keys, words_in_query)
       \o _search_events(DictGet(user_data, SUMMARIES_KEY, <<>>), words_in_query)

\* A faulty variant of search_memory, which scans the records of all
\* users when the user has none; MissingRecordIsEmpty rejects it.
search_memory_any_user(doc, app_name, user_id, query) ==
    LET user_key == _user_key(app_name, user_id)
        words_in_query == _extract_words_lower(query)
    IN IF user_key \in DOMAIN doc
       THEN _search_events(DictGet(doc[user_key], SUMMARIES_KEY, <<>>),
                           words_in_query)
            \o SearchSessions(doc[user_key], doc[user_key].keys, words_in_query)
       ELSE IF doc = EmptyMap THEN <<>>
       ELSE LET other == CHOOSE key \in DOMAIN doc : TRUE
            IN SearchSessions(doc[other], doc[other].keys, words_in_query)

\* Lines 223-265: response.memories of search_memory on a loaded document.
search_memory(doc, app_name, user_id, query) ==
    LET user_key == _user_key(app_name, user_id)
        user_data == MapGet(doc, user_key, EmptyDict)
        words_in_query == _extract_words_lower(query)
    IN _search_events(DictGet(user_data, SUMMARIES_KEY, <<>>), words_in_query)
       \o SearchSessions(user_data, user_data.keys, words_in_query)

\* ------------------------------------------------------------- summarizer

\* Lines 108-110: the transcript lines of the existing summaries.
RECURSIVE SummaryLines(_)
SummaryLines(summaries) ==
    IF summaries = <<>> THEN <<>>
    ELSE LET summary_text == Head(summaries).content.parts[1].text
         IN (IF summary_text # ""
             THEN << <<"Previous Summary", summary_text>> >> ELSE <<>>)
            \o SummaryLines(Tail(summaries))

\* Lines 119-123: the transcript lines of one session's events.
RECURSIVE EventLines(_)
EventLines(events) ==
    IF events = <<>> THEN <<>>
    ELSE LET event == Head(events)
             texts == SelectSeq([i \in DOMAIN event.content.parts |->
                                   event.content.parts[i].text],
                                LAMBDA t : t # "")
             text == Join(" ", texts)
         IN (IF text # "" THEN << <<event.author, text>> >> ELSE <<>>)
            \o EventLines(Tail(events))

\* Lines 116-123: the loop over the user's dict, reserved keys skipped.
RECURSIVE SessionLines(_, _)
SessionLines(user_data, keys) ==
    IF keys = <<>> THEN <<>>
    ELSE (IF Head(keys) \in ReservedKeys THEN <<>>
          ELSE EventLines(user_data.val[Head(keys)]))
         \o SessionLines(user_data, Tail(keys))

\* A faulty variant of Transcript, which renders the sessions and leaves the
\* existing summaries out; PromptFromOwnRecord rejects it.
TranscriptSessionsOnly(user_data) ==
    SessionLines(user_data, user_data.keys)

\* Lines 105-123: the transcript, as its sequence of lines "<who>: <text>".
Transcript(user_data) ==
    SummaryLines(DictGet(user_data, SUMMARIES_KEY, <<>>))
    \o SessionLines(user_data, user_data.keys)

\* Lines 33-36.
_SUMMARIZE_MEMORY_PROMPT ==
    "Summarize the key facts from this conversation that are worth remembering for future interactions. Be concise."

\* Line 130: the contents passed to generate_content, the transcript and
\* then the fixed instruction.
summary_prompt(user_data) ==
    <<Transcript(user_data), _SUMMARIZE_MEMORY_PROMPT>>

\* Lines 139-146: the summary event.
NewSummaryEvent(summary_text) ==
    [timestamp |-> Some(IsoFormat(Now)),
     author |-> "memory_summarizer",
     content |-> [role |-> Some("model"),
                  parts |-> <<[text |-> MemorySummaryPrefix \o summary_text]>>]]

\* A faulty variant of CommitSummary, which records the count at which the
\* next summarization is due; LastSummarizedAtMostTotal rejects it.
CommitSummaryNextDue(doc, user_key, summary_text, total_turns) ==
    LET user_data == doc[user_key]
        metadata == DictGet(user_data, METADATA_KEY, EmptyMap)
        user_data1 == DictSet(user_data, SUMMARIES_KEY,
                              <<NewSummaryEvent(summary_text)>>)
        metadata1 == MapSet(metadata, "last_summarized_turn_count",
                            total_turns + SUMMARIZATION_THRESHOLD)
    IN MapSet(doc, user_key, DictSet(user_data1, METADATA_KEY, metadata1))

\* A faulty variant of CommitSummary, which rebuilds the user's dict from
\* the summary and the metadata alone; SummarizationKeepsSessions rejects
\* it.
CommitSummaryAlone(doc, user_key, summary_text, total_turns) ==
    LET metadata == DictGet(doc[user_key], METADATA_KEY, EmptyMap)
        user_data1 == DictSet(EmptyDict, SUMMARIES_KEY,
                              <<NewSummaryEvent(summary_text)>>)
        metadata1 == MapSet(metadata, "last_summarized_turn_count", total_turns)
    IN MapSet(doc, user_key, DictSet(user_data1, METADATA_KEY, metadata1))

\* Lines 150-152: the commit, made on the user's dict the run read at its
\* threshold check, with the total_turns it read there.
CommitSummary(doc, user_key, summary_text, total_turns) ==
    LET user_data == doc[user_key]
        metadata == DictGet(user_data, METADATA_KEY, EmptyMap)
        user_data1 == DictSet(user_data, SUMMARIES_KEY,
                              <<NewSummaryEvent(summary_text)>>)
        metadata1 == MapSet(metadata, "last_summarized_turn_count", total_turns)
    IN MapSet(doc, user_key, DictSet(user_data1, METADATA_KEY, metadata1))

\* ------------------------------------------------------------------ bounds

\* add_session_to_memory calls started on the service instance.
MaxCalls == 2

\* The calls that may be in flight at one time.
Callers == {1, 2}

\* The add_session_to_memory calls made on the second instance.
MaxPeerCalls == 1

\* The subentries the config entries may come to have, all together.
MaxSubentries == 2

\* (summarize, client given, model_id given) at construction: the
\* defaults, a summarizing service, and one asked to summarize without a
\* client.
Configs ==
    { <<FALSE, FALSE, FALSE>>, <<TRUE, TRUE, TRUE>>, <<TRUE, FALSE, FALSE>> }

\* ------------------------------------------------------------------- state

VARIABLES
    store,              \* what the Store holds: None, or Some(document)
    heap,               \* the document objects that are still referenced:
                        \* the one __init__ made, those the loads returned
    session_events,     \* self._session_events: the object it refers to
    _loaded,            \* self._loaded
    _summarize,         \* self._summarize
    _client,            \* self._client is given
    _model_id,          \* self._model_id is given
    _summarizing_lock,  \* self._summarizing_lock is held
    _lock,              \* self._lock is held
    calls,              \* per caller, the call it has in flight
    tasks,              \* the background tasks made by async_create_task
                        \* that have not ended, in the order of creation
    ingested,           \* per (app, user), the turns with text ever ingested;
                        \* per (app, user, session id), the calls that have
                        \* stored that session
    given,              \* per (app, user), the texts ingested or summarized
    generate_calls,     \* per (app, user), the client's generate_content calls
    ncalls,             \* add_session_to_memory calls started
    peer,               \* a second LocalFileMemoryService of the same hass
    config_entries,     \* the config entries of the domain
    flow,               \* the config or subentry flow in progress
    environ,            \* os.environ.get("GOOGLE_API_KEY"): None when unset
    build               \* the agent.async_create call in progress: its
                        \* nested calls, and what it has returned or raised

vars ==
    <<store, heap, session_events, _loaded, _summarize, _client, _model_id,
      _summarizing_lock, _lock, calls, tasks, ingested, given,
      generate_calls, ncalls, peer, config_entries, flow, environ, build>>

\* What the steps of the service leave alone: the second instance, the
\* config entries with their flows, the environment and the construction
\* of agents; and self._lock,
\* which a step that takes it releases before it ends (lines 192-202 and
\* 225-226 do not await), so that it is free after the step as before it.
others == <<peer, config_entries, flow, environ, build, _lock>>

\* What the calls of the second instance and the flows leave alone.
service_vars ==
    <<heap, session_events, _loaded, _summarize, _client, _model_id,
      _summarizing_lock, _lock, calls, tasks, ingested, given,
      generate_calls, ncalls, build>>

\* The same without the agent construction, for its own steps.
service_vars_but_build ==
    <<heap, session_events, _loaded, _summarize, _client, _model_id,
      _summarizing_lock, _lock, calls, tasks, ingested, given,
      generate_calls, ncalls>>

\* No agent.async_create call has been made.
NoBuild == [root |-> "", stack |-> <<>>, result |-> None]

Idle == [pc |-> "idle"]

\* Lines 56-73: a second instance after __init__ with the default
\* summarize=False: its document, its flag, what its Store holds when its
\* storage key is its own, the texts it was given per (app, user), the
\* add_session_to_memory calls made on it and the session that the last
\* of them stored.
PeerNew ==
    [session_events |-> EmptyMap, _loaded |-> FALSE, store |-> None,
     given |-> EmptyMap, ncalls |-> 0, added |-> None]

\* No flow is in progress.
NoFlow == [handler |-> "none"]

\* The document self._session_events refers to.
Live == heap[session_events]

RemoveAt(seq, i) == SubSeq(seq, 1, i - 1) \o SubSeq(seq, i + 1, Len(seq))

\* The next heap, self._session_events, calls and tasks: h, live, cs and
\* ts, with the objects that no reference reaches any more dropped from
\* the heap (the others keep their order).
Place(h, live, cs, ts) ==
    LET refs == {live}
                \cup {cs[c].obj : c \in {x \in Callers : cs[x].pc = "add_save"}}
                \cup {ts[i].obj : i \in {x \in DOMAIN ts : ts[x].pc = "generating"}}
                \cup {ts[i].saving : i \in {x \in DOMAIN ts : ts[x].pc = "saving"}}
        rank(g) == Cardinality({r \in refs : r <= g})
    IN /\ heap' = [n \in 1..Cardinality(refs) |->
                     h[CHOOSE g \in refs : rank(g) = n]]
       /\ session_events' = rank(live)
       /\ calls' = [c \in Callers |->
                      IF cs[c].pc = "add_save"
                      THEN [cs[c] EXCEPT !.obj = rank(@)] ELSE cs[c]]
       /\ tasks' = [i \in DOMAIN ts |->
                      IF ts[i].pc = "generating"
                      THEN [ts[i] EXCEPT !.obj = rank(@)]
                      ELSE IF ts[i].pc = "saving"
                      THEN [ts[i] EXCEPT !.saving = rank(@)]
                      ELSE ts[i]]

\* ------------------------------------------------------- documents on disk

\* An event has a part with text.
HasText(event) ==
    /\ event.content # None
    /\ \E i \in DOMAIN event.content[1].parts :
           event.content[1].parts[i].text # ""

TurnsWithText(events) == Cardinality({i \in DOMAIN events : HasText(events[i])})

\* The texts of the parts of a session's events.
TextsOf(events) ==
    UNION {{event.content[1].parts[i].text : i \in DOMAIN event.content[1].parts}
           : event \in {e \in Range(events) : e.content # None}} \ {""}

\* The document after n calls of add_session_to_memory with one session
\* on an empty document, and then m more calls with it on document doc:
\* each call stores the same events again and adds their number to
\* total_turns.
Ingested(session, n) ==
    LET serializable_events == SerializeEvents(session.events)
    IN StoreSession(EmptyMap, session, serializable_events,
                    n * Len(serializable_events))

IngestedAgain(doc, session, m) ==
    LET serializable_events == SerializeEvents(session.events)
    IN StoreSession(doc, session, serializable_events,
                    m * Len(serializable_events))

EarlierSession == Session("s1", "u1", <<EvUser>>)
EarlierKey == _user_key("app", "u1")
EarlierWho == <<"app", "u1">>
EarlierWhich == <<"app", "u1", "s1">>

\* One turn short of the threshold: the session above, ingested 24 times.
DocNearThreshold == Ingested(EarlierSession, SUMMARIZATION_THRESHOLD - 1)

\* Summarized at 25 turns, and again one turn short of the threshold.
DocSummarized ==
    IngestedAgain(
        CommitSummary(Ingested(EarlierSession, SUMMARIZATION_THRESHOLD),
                      EarlierKey, EarlierSummary, SUMMARIZATION_THRESHOLD),
        EarlierSession, SUMMARIZATION_THRESHOLD - 1)

\* What earlier runs of the service may have left in the Store, with the
\* turns they ingested and the client calls they made for that.
Histories ==
    { [store |-> None, ingested |-> EmptyMap, given |-> EmptyMap,
       generate_calls |-> EmptyMap],
      [store |-> Some(DocNearThreshold),
       ingested |-> MapSet(MapSet(EmptyMap, EarlierWho,
                                  SUMMARIZATION_THRESHOLD - 1),
                           EarlierWhich, SUMMARIZATION_THRESHOLD - 1),
       given |-> MapSet(EmptyMap, EarlierWho, {TextPhone}),
       generate_calls |-> EmptyMap],
      [store |-> Some(DocSummarized),
       ingested |-> MapSet(MapSet(EmptyMap, EarlierWho,
                                  2 * SUMMARIZATION_THRESHOLD - 1),
                           EarlierWhich, 2 * SUMMARIZATION_THRESHOLD - 1),
       given |-> MapSet(EmptyMap, EarlierWho,
                        {TextPhone, MemorySummaryPrefix \o EarlierSummary}),
       generate_calls |-> MapSet(EmptyMap, EarlierWho, 1)] }

\* ----------------------------------------------------------------- actions

\* Lines 56-73: __init__, on a Store that earlier runs may have written.
ServiceInit ==
    /\ \E h \in Histories :
         /\ store = h.store
         /\ ingested = h.ingested
         /\ given = h.given
         /\ generate_calls = h.generate_calls
    /\ heap = <<EmptyMap>>
    /\ session_events = 1
    /\ _loaded = FALSE
    /\ \E cfg \in Configs :
         /\ _summarize = cfg[1]
         /\ _client = cfg[2]
         /\ _model_id = cfg[3]
    /\ _summarizing_lock = FALSE
    /\ _lock = FALSE
    /\ calls = [c \in Callers |-> Idle]
    /\ tasks = <<>>
    /\ ncalls = 0

\* The service alone: the second instance is constructed and never called,
\* there is no config entry and no flow.
Init ==
    /\ ServiceInit
    /\ peer = PeerNew
    /\ config_entries = <<>>
    /\ flow = NoFlow
    /\ environ = None
    /\ build = NoBuild

\* Lines 80-83: _async_load once store.async_load() has returned data: a
\* document that is not empty is a new object, which self._session_events
\* then refers to.  Gives <<heap, session_events>> after it.
Hydrate(data) ==
    IF data # None /\ data[1] # EmptyMap
    THEN <<Append(heap, data[1]), Len(heap) + 1>>
    ELSE <<heap, session_events>>

\* Lines 68, 80-83: self._session_events of a new instance after its first
\* load from a Store that holds st.
Hydrated(st) == IF st # None /\ st[1] # EmptyMap THEN st[1] ELSE EmptyMap

\* A call in flight takes the first caller that has none.
FreeCaller(c) ==
    /\ calls[c].pc = "idle"
    /\ \A d \in Callers : calls[d].pc = "idle" => c <= d

\* Lines 165-204: add_session_to_memory from the end of _async_load to the
\* call of store.async_save, on heap h with self._session_events = live.
\* Lines 192-202 run under self._lock, which the step takes when it is
\* free and releases at line 202, before the await of line 204.
AddAfterLoad(c, session, h, live) ==
    LET user_key == _user_key(session.app_name, session.user_id)
        who == <<session.app_name, session.user_id>>
        which == <<session.app_name, session.user_id, session.id>>
        serializable_events == SerializeEvents(session.events)
        new_turns == Len(serializable_events)
    IN IF serializable_events = <<>>
       THEN /\ Place(h, live, [calls EXCEPT ![c] = Idle], tasks)
            /\ UNCHANGED <<ingested, given>>
       ELSE LET doc == StoreSession(h[live], session, serializable_events,
                                    new_turns)
            IN /\ ~_lock
               /\ Place([h EXCEPT ![live] = doc], live,
                        [calls EXCEPT ![c] =
                           [pc |-> "add_save", session |-> session,
                            obj |-> live,
                            total_turns |-> TotalTurns(doc, user_key)]],
                        tasks)
               /\ ingested' = MapSet(MapSet(ingested, who,
                                            MapGet(ingested, who, 0)
                                            + TurnsWithText(session.events)),
                                     which, MapGet(ingested, which, 0) + 1)
               /\ given' = MapSet(given, who,
                                  MapGet(given, who, {})
                                  \cup TextsOf(session.events))

\* Lines 160-163: the call starts; _async_load returns at once when loaded,
\* and otherwise awaits store.async_load().
AddStart(c, session) ==
    /\ FreeCaller(c)
    /\ ncalls < MaxCalls
    /\ ncalls' = ncalls + 1
    /\ IF _loaded
       THEN AddAfterLoad(c, session, heap, session_events)
       ELSE /\ calls' = [calls EXCEPT ![c] = [pc |-> "add_load", session |-> session]]
            /\ UNCHANGED <<heap, session_events, tasks, ingested, given>>
    /\ UNCHANGED <<store, _loaded, _summarize, _client, _model_id,
                   _summarizing_lock, generate_calls>>
    /\ UNCHANGED others

\* Lines 80-83, then 165-204: store.async_load() returns to the call.
AddLoaded(c) ==
    /\ calls[c].pc = "add_load"
    /\ _loaded' = TRUE
    /\ AddAfterLoad(c, calls[c].session, Hydrate(store)[1], Hydrate(store)[2])
    /\ UNCHANGED <<store, _summarize, _client, _model_id, _summarizing_lock,
                   generate_calls, ncalls>>
    /\ UNCHANGED others

\* A faulty variant of AddSaved, which awaits the summarization it has
\* started instead of leaving it to a background task: it returns only
\* when no summarization run holds the summarizing lock;
\* CallsNeverWaitForSummarization rejects it.
AddSavedAwaitsSummarization(c) ==
    /\ calls[c].pc = "add_save"
    /\ ~_summarizing_lock
    /\ LET session == calls[c].session
           user_key == _user_key(session.app_name, session.user_id)
           last_summarized == LastSummarized(heap[calls[c].obj], user_key)
           schedule == /\ _summarize
                       /\ calls[c].total_turns - last_summarized
                            >= SUMMARIZATION_THRESHOLD
       IN /\ store' = Some(heap[calls[c].obj])
          /\ Place(heap, session_events, [calls EXCEPT ![c] = Idle],
                   IF schedule
                   THEN Append(tasks, [pc |-> "scheduled",
                                       app_name |-> session.app_name,
                                       user_id |-> session.user_id])
                   ELSE tasks)
    /\ UNCHANGED <<_loaded, _summarize, _client, _model_id,
                   _summarizing_lock, ingested, given,
                   generate_calls, ncalls>>
    /\ UNCHANGED others

\* Lines 204-214: store.async_save returns; the document object passed to
\* it is on disk as it is now.  metadata is the dict of that object.
AddSaved(c) ==
    /\ calls[c].pc = "add_save"
    /\ LET session == calls[c].session
           user_key == _user_key(session.app_name, session.user_id)
           last_summarized == LastSummarized(heap[calls[c].obj], user_key)
           schedule == /\ _summarize
                       /\ calls[c].total_turns - last_summarized
                            >= SUMMARIZATION_THRESHOLD
       IN /\ store' = Some(heap[calls[c].obj])
          /\ Place(heap, session_events, [calls EXCEPT ![c] = Idle],
                   IF schedule
                   THEN Append(tasks, [pc |-> "scheduled",
                                       app_name |-> session.app_name,
                                       user_id |-> session.user_id])
                   ELSE tasks)
    /\ UNCHANGED <<_loaded, _summarize, _client, _model_id,
                   _summarizing_lock, ingested, given,
                   generate_calls, ncalls>>
    /\ UNCHANGED others

\* A faulty variant of AddSaveFailed, which takes the call's turns back
\* from total_turns when the save raises; SaveFailureKeepsMemory rejects
\* it.
AddSaveFailedRollsBack(c) ==
    /\ calls[c].pc = "add_save"
    /\ LET session == calls[c].session
           user_key == _user_key(session.app_name, session.user_id)
           obj == calls[c].obj
           user_data == heap[obj][user_key]
           metadata == DictGet(user_data, METADATA_KEY, EmptyMap)
           metadata1 == MapSet(metadata, "total_turns",
                               MapGet(metadata, "total_turns", 0)
                               - Len(SerializeEvents(session.events)))
       IN Place([heap EXCEPT ![obj] =
                   MapSet(heap[obj], user_key,
                          DictSet(user_data, METADATA_KEY, metadata1))],
                session_events, [calls EXCEPT ![c] = Idle], tasks)
    /\ UNCHANGED <<store, _loaded, _summarize, _client, _model_id,
                   _summarizing_lock, ingested, given,
                   generate_calls, ncalls>>
    /\ UNCHANGED others

\* Line 204: store.async_save raises; the error leaves the call.
AddSaveFailed(c) ==
    /\ calls[c].pc = "add_save"
    /\ Place(heap, session_events, [calls EXCEPT ![c] = Idle], tasks)
    /\ UNCHANGED <<store, _loaded, _summarize, _client, _model_id,
                   _summarizing_lock, ingested, given,
                   generate_calls, ncalls>>
    /\ UNCHANGED others

\* Lines 217-222: the call starts.  Once loaded it returns
\* search_memory(Live, app_name, user_id, query) at once (lines 223-265
\* do not await) and changes nothing.
SearchStart(c, app_name, user_id, query) ==
    /\ FreeCaller(c)
    /\ IF _loaded
       THEN ~_lock /\ UNCHANGED calls
       ELSE calls' = [calls EXCEPT ![c] =
                        [pc |-> "search_load", app_name |-> app_name,
                         user_id |-> user_id, query |-> query]]
    /\ UNCHANGED <<store, heap, session_events, _loaded, _summarize, _client,
                   _model_id, _summarizing_lock, tasks, ingested, given, generate_calls, ncalls>>
    /\ UNCHANGED others

\* Lines 80-83, then 223-265: store.async_load() returns to the call, which
\* returns search_memory(Live', app_name, user_id, query).
SearchLoaded(c) ==
    /\ calls[c].pc = "search_load"
    /\ ~_lock
    /\ _loaded' = TRUE
    /\ Place(Hydrate(store)[1], Hydrate(store)[2],
             [calls EXCEPT ![c] = Idle], tasks)
    /\ UNCHANGED <<store, _summarize, _client, _model_id, _summarizing_lock,
                   ingested, given, generate_calls, ncalls>>
    /\ UNCHANGED others

\* A faulty variant of TaskStart, which does not take the summarizing
\* lock before its checks; OneSummarizationInFlight rejects it.
TaskStartNoLock(i) ==
    /\ tasks[i].pc = "scheduled"
    /\ \A j \in 1..(i - 1) : tasks[j].pc # "scheduled"
    /\ IF ~_summarize \/ ~_client \/ ~_model_id
       THEN /\ Place(heap, session_events, calls, RemoveAt(tasks, i))
            /\ UNCHANGED <<_summarizing_lock, generate_calls>>
       ELSE /\ _loaded
            /\ LET user_key == _user_key(tasks[i].app_name, tasks[i].user_id)
                   who == <<tasks[i].app_name, tasks[i].user_id>>
                   user_data == MapGet(Live, user_key, EmptyDict)
                   last_summarized_count == LastSummarized(Live, user_key)
                   total_turns == TotalTurns(Live, user_key)
               IN IF \/ total_turns - last_summarized_count
                           < SUMMARIZATION_THRESHOLD
                     \/ Transcript(user_data) = <<>>
                  THEN /\ Place(heap, session_events, calls, RemoveAt(tasks, i))
                       /\ UNCHANGED <<_summarizing_lock, generate_calls>>
                  ELSE /\ Place(heap, session_events, calls,
                                [tasks EXCEPT ![i] =
                                   [pc |-> "generating",
                                    app_name |-> tasks[i].app_name,
                                    user_id |-> tasks[i].user_id,
                                    obj |-> session_events,
                                    total_turns |-> total_turns]])
                       /\ _summarizing_lock' = TRUE
                       /\ generate_calls' =
                            MapSet(generate_calls, who,
                                   MapGet(generate_calls, who, 0) + 1)
    /\ UNCHANGED <<store, _loaded, _summarize, _client, _model_id, ingested,
                   given, ncalls>>
    /\ UNCHANGED others

\* A faulty variant of TaskStart, which calls the client also with an
\* empty transcript; RunAbortsWithoutEffect rejects it.
TaskStartAnyTranscript(i) ==
    /\ tasks[i].pc = "scheduled"
    /\ \A j \in 1..(i - 1) : tasks[j].pc # "scheduled"
    /\ IF ~_summarize \/ ~_client \/ ~_model_id
       THEN /\ Place(heap, session_events, calls, RemoveAt(tasks, i))
            /\ UNCHANGED <<_summarizing_lock, generate_calls>>
       ELSE /\ ~_summarizing_lock
            /\ _loaded
            /\ LET user_key == _user_key(tasks[i].app_name, tasks[i].user_id)
                   who == <<tasks[i].app_name, tasks[i].user_id>>
                   user_data == MapGet(Live, user_key, EmptyDict)
                   last_summarized_count == LastSummarized(Live, user_key)
                   total_turns == TotalTurns(Live, user_key)
               IN IF total_turns - last_summarized_count
                       < SUMMARIZATION_THRESHOLD
                  THEN /\ Place(heap, session_events, calls, RemoveAt(tasks, i))
                       /\ UNCHANGED <<_summarizing_lock, generate_calls>>
                  ELSE /\ Place(heap, session_events, calls,
                                [tasks EXCEPT ![i] =
                                   [pc |-> "generating",
                                    app_name |-> tasks[i].app_name,
                                    user_id |-> tasks[i].user_id,
                                    obj |-> session_events,
                                    total_turns |-> total_turns]])
                       /\ _summarizing_lock' = TRUE
                       /\ generate_calls' =
                            MapSet(generate_calls, who,
                                   MapGet(generate_calls, who, 0) + 1)
    /\ UNCHANGED <<store, _loaded, _summarize, _client, _model_id, ingested,
                   given, ncalls>>
    /\ UNCHANGED others

\* A faulty variant of TaskStart, which tests self._summarize only and goes
\* on without a client or a model id; DisabledNeverSummarizes rejects it.
TaskStartOnlySummarizeFlag(i) ==
    /\ tasks[i].pc = "scheduled"
    /\ \A j \in 1..(i - 1) : tasks[j].pc # "scheduled"
    /\ IF ~_summarize
       THEN /\ Place(heap, session_events, calls, RemoveAt(tasks, i))
            /\ UNCHANGED <<_summarizing_lock, generate_calls>>
       ELSE /\ ~_summarizing_lock
            /\ _loaded
            /\ LET user_key == _user_key(tasks[i].app_name, tasks[i].user_id)
                   who == <<tasks[i].app_name, tasks[i].user_id>>
                   user_data == MapGet(Live, user_key, EmptyDict)
                   last_summarized_count == LastSummarized(Live, user_key)
                   total_turns == TotalTurns(Live, user_key)
               IN IF \/ total_turns - last_summarized_count
                           < SUMMARIZATION_THRESHOLD
                     \/ Transcript(user_data) = <<>>
                  THEN /\ Place(heap, session_events, calls, RemoveAt(tasks, i))
                       /\ UNCHANGED <<_summarizing_lock, generate_calls>>
                  ELSE /\ Place(heap, session_events, calls,
                                [tasks EXCEPT ![i] =
                                   [pc |-> "generating",
                                    app_name |-> tasks[i].app_name,
                                    user_id |-> tasks[i].user_id,
                                    obj |-> session_events,
                                    total_turns |-> total_turns]])
                       /\ _summarizing_lock' = TRUE
                       /\ generate_calls' =
                            MapSet(generate_calls, who,
                                   MapGet(generate_calls, who, 0) + 1)
    /\ UNCHANGED <<store, _loaded, _summarize, _client, _model_id, ingested,
                   given, ncalls>>
    /\ UNCHANGED others

\* Lines 85-133: a background task runs from its start to the call of
\* generate_content, or to its return.  Tasks start in the order of their
\* creation, and one that finds the summarizing lock held waits for it in
\* that order.  A task exists only after an add_session_to_memory has
\* loaded, so _async_load returns at once (TaskImpliesLoaded).
TaskStart(i) ==
    /\ tasks[i].pc = "scheduled"
    /\ \A j \in 1..(i - 1) : tasks[j].pc # "scheduled"
    /\ IF ~_summarize \/ ~_client \/ ~_model_id
       THEN /\ Place(heap, session_events, calls, RemoveAt(tasks, i))
            /\ UNCHANGED <<_summarizing_lock, generate_calls>>
       ELSE /\ ~_summarizing_lock
            /\ _loaded
            /\ LET user_key == _user_key(tasks[i].app_name, tasks[i].user_id)
                   who == <<tasks[i].app_name, tasks[i].user_id>>
                   user_data == MapGet(Live, user_key, EmptyDict)
                   last_summarized_count == LastSummarized(Live, user_key)
                   total_turns == TotalTurns(Live, user_key)
               IN IF \/ total_turns - last_summarized_count
                           < SUMMARIZATION_THRESHOLD
                     \/ Transcript(user_data) = <<>>
                  THEN /\ Place(heap, session_events, calls, RemoveAt(tasks, i))
                       /\ UNCHANGED <<_summarizing_lock, generate_calls>>
                  ELSE /\ Place(heap, session_events, calls,
                                [tasks EXCEPT ![i] =
                                   [pc |-> "generating",
                                    app_name |-> tasks[i].app_name,
                                    user_id |-> tasks[i].user_id,
                                    obj |-> session_events,
                                    total_turns |-> total_turns]])
                       /\ _summarizing_lock' = TRUE
                       /\ generate_calls' =
                            MapSet(generate_calls, who,
                                   MapGet(generate_calls, who, 0) + 1)
    /\ UNCHANGED <<store, _loaded, _summarize, _client, _model_id, ingested,
                   given, ncalls>>
    /\ UNCHANGED others

\* Lines 134-154: generate_content returns response.text; the summary is
\* committed to the user's dict read at line 95 and store.async_save is
\* called with self._session_events.
TaskGenerated(i, summary_text) ==
    /\ tasks[i].pc = "generating"
    /\ LET user_key == _user_key(tasks[i].app_name, tasks[i].user_id)
           who == <<tasks[i].app_name, tasks[i].user_id>>
           obj == tasks[i].obj
       IN /\ Place([heap EXCEPT ![obj] =
                      CommitSummary(heap[obj], user_key, summary_text,
                                    tasks[i].total_turns)],
                   session_events, calls,
                   [tasks EXCEPT ![i] =
                      [pc |-> "saving", app_name |-> tasks[i].app_name,
                       user_id |-> tasks[i].user_id,
                       saving |-> session_events]])
          /\ given' = MapSet(given, who,
                             MapGet(given, who, {})
                             \cup {MemorySummaryPrefix \o summary_text})
    /\ UNCHANGED <<store, _loaded, _summarize, _client, _model_id,
                   _summarizing_lock, ingested, generate_calls,
                   ncalls>>
    /\ UNCHANGED others

\* A faulty variant of TaskGenerateFailed, which records the turns as
\* summarized although the client raised; ClientFailureChangesNothing
\* rejects it.
TaskGenerateFailedAdvances(i) ==
    /\ tasks[i].pc = "generating"
    /\ LET user_key == _user_key(tasks[i].app_name, tasks[i].user_id)
           obj == tasks[i].obj
           user_data == heap[obj][user_key]
           metadata == DictGet(user_data, METADATA_KEY, EmptyMap)
           metadata1 == MapSet(metadata, "last_summarized_turn_count",
                               tasks[i].total_turns)
       IN Place([heap EXCEPT ![obj] =
                   MapSet(heap[obj], user_key,
                          DictSet(user_data, METADATA_KEY, metadata1))],
                session_events, calls, RemoveAt(tasks, i))
    /\ _summarizing_lock' = FALSE
    /\ UNCHANGED <<store, _loaded, _summarize, _client, _model_id, ingested,
                   given, generate_calls, ncalls>>
    /\ UNCHANGED others

\* Lines 131-133, 156-157: generate_content raises; the error is logged.
TaskGenerateFailed(i) ==
    /\ tasks[i].pc = "generating"
    /\ Place(heap, session_events, calls, RemoveAt(tasks, i))
    /\ _summarizing_lock' = FALSE
    /\ UNCHANGED <<store, _loaded, _summarize, _client, _model_id, ingested,
                   given, generate_calls, ncalls>>
    /\ UNCHANGED others

\* Lines 154-155: store.async_save returns to the task.
TaskSaved(i) ==
    /\ tasks[i].pc = "saving"
    /\ store' = Some(heap[tasks[i].saving])
    /\ Place(heap, session_events, calls, RemoveAt(tasks, i))
    /\ _summarizing_lock' = FALSE
    /\ UNCHANGED <<_loaded, _summarize, _client, _model_id, ingested,
                   given, generate_calls, ncalls>>
    /\ UNCHANGED others

\* A faulty variant of TaskSaveFailed, in which the error of the save
\* leaves the run without releasing self._summarizing_lock;
\* LockDiscipline rejects it.
TaskSaveFailedKeepsLock(i) ==
    /\ tasks[i].pc = "saving"
    /\ Place(heap, session_events, calls, RemoveAt(tasks, i))
    /\ UNCHANGED <<store, _loaded, _summarize, _client, _model_id, ingested,
                   given, generate_calls, ncalls, _summarizing_lock>>
    /\ UNCHANGED others

\* Lines 154, 156-157: store.async_save raises; the error is logged.
TaskSaveFailed(i) ==
    /\ tasks[i].pc = "saving"
    /\ Place(heap, session_events, calls, RemoveAt(tasks, i))
    /\ _summarizing_lock' = FALSE
    /\ UNCHANGED <<store, _loaded, _summarize, _client, _model_id, ingested,
                   given, generate_calls, ncalls>>
    /\ UNCHANGED others

Next ==
    \/ \E c \in Callers, session \in Sessions : AddStart(c, session)
    \/ \E c \in Callers : AddLoaded(c)
    \/ \E c \in Callers : AddSaved(c)
    \/ \E c \in Callers : AddSaveFailed(c)
    \/ \E c \in Callers, search \in Searches :
         SearchStart(c, search[1], search[2], search[3])
    \/ \E c \in Callers : SearchLoaded(c)
    \/ \E i \in DOMAIN tasks : TaskStart(i)
    \/ \E i \in DOMAIN tasks, summary_text \in ClientTexts :
         TaskGenerated(i, summary_text)
    \/ \E i \in DOMAIN tasks : TaskGenerateFailed(i)
    \/ \E i \in DOMAIN tasks : TaskSaved(i)
    \/ \E i \in DOMAIN tasks : TaskSaveFailed(i)

Spec == Init /\ [][Next]_vars

\* ------------------------------------------------------- a second instance

\* Line 31.
STORAGE_KEY == "google_adk.memory"

\* A faulty variant of storage_key, in which __init__ makes the Store with
\* the module's STORAGE_KEY instead of its parameter; InstanceIsolation
\* rejects it.
storage_key_constant(instance) == STORAGE_KEY

\* Lines 59, 66: the storage_key each instance is constructed with and
\* passes to its Store, as in test_memory_service_isolation.
storage_key(instance) == IF instance = 1 THEN "key1" ELSE "key2"

\* What the Store of the second instance holds: a Store reads and writes
\* the file of its key, so with the key of the first instance it is the
\* file the first instance's Store reads and writes.
PeerStore == IF storage_key(2) = storage_key(1) THEN store ELSE peer.store

\* Lines 75-83: _async_load of the second instance, whose calls are made
\* one after the other.
PeerLoad(p) ==
    IF p._loaded THEN p
    ELSE [p EXCEPT !.session_events = Hydrated(PeerStore), !._loaded = TRUE]

\* Lines 160-214: one add_session_to_memory call on the second instance,
\* from its start to its return; the save succeeds, and with
\* summarize=False nothing is scheduled (line 209).
PeerAdd(session) ==
    /\ peer.ncalls < MaxPeerCalls
    /\ LET p == [PeerLoad(peer) EXCEPT !.ncalls = @ + 1]
           who == <<session.app_name, session.user_id>>
           serializable_events == SerializeEvents(session.events)
           doc == StoreSession(p.session_events, session, serializable_events,
                               Len(serializable_events))
           p1 == [p EXCEPT !.session_events = doc,
                           !.added = Some(session),
                           !.given = MapSet(@, who,
                                            MapGet(@, who, {})
                                            \cup TextsOf(session.events))]
       IN IF serializable_events = <<>>
          THEN peer' = p /\ UNCHANGED store
          ELSE IF storage_key(2) = storage_key(1)
          THEN peer' = p1 /\ store' = Some(doc)
          ELSE peer' = [p1 EXCEPT !.store = Some(doc)] /\ UNCHANGED store
    /\ UNCHANGED <<service_vars, config_entries, flow, environ>>

\* Lines 217-265: one search_memory call on the second instance; it returns
\* search_memory(peer.session_events, app_name, user_id, query).
PeerSearch(app_name, user_id, query) ==
    /\ peer' = PeerLoad(peer)
    /\ UNCHANGED <<store, service_vars, config_entries, flow, environ>>

\* Two instances of one hass, both with summarize=False, each called by
\* one caller that makes its calls one after the other: the steps of the
\* first instance's calls as in Next (no task is ever created, line 209),
\* and the calls of the second.
InitInstances ==
    /\ ServiceInit
    /\ ~_summarize
    /\ peer = PeerNew
    /\ config_entries = <<>>
    /\ flow = NoFlow
    /\ environ = None
    /\ build = NoBuild

NextInstances ==
    \/ \E session \in Sessions : AddStart(1, session)
    \/ AddLoaded(1)
    \/ AddSaved(1)
    \/ AddSaveFailed(1)
    \/ \E search \in Searches : SearchStart(1, search[1], search[2], search[3])
    \/ SearchLoaded(1)
    \/ \E session \in Sessions : PeerAdd(session)
    \/ \E search \in Searches : PeerSearch(search[1], search[2], search[3])

SpecInstances == InitInstances /\ [][NextInstances]_vars

\* ---------------------------------------------- config and subentry flows

\* const.py, lines 5-11.
DEFAULT_TITLE == "Google ADK"
CONF_NAME == "name"
CONF_MODEL == "model"
CONF_DESCRIPTION == "description"
CONF_INSTRUCTIONS == "instructions"
CONF_API_KEY == "api_key"

\* What users submit to the form "api" (STEP_API_DATA_SCHEMA, lines 41-45),
\* to the form "reauth_confirm" (no schema), and to the form "set_options"
\* of a new subentry and of a reconfigured one (the keys of
\* _options_schema_factory).
ApiInputs == {[api_key |-> "key_a"], [api_key |-> "key_b"]}
ConfirmInputs == {EmptyMap}
NewSubentryInputs ==
    [name : {"assistant_agent", "second_agent"},
     model : {"gemini-3-flash-preview"},
     description : {"A test agent"},
     instructions : {"Be helpful"}]
ReconfigureInputs ==
    [model : {"gemini-3-flash-preview"},
     description : {"A test agent", "Another agent"},
     instructions : {"Be helpful"}]

\* dict.pop(key): the dict without the key.
Without(d, key) == [k \in DOMAIN d \ {key} |-> d[k]]

\* The config entries the flows start from: none, one loaded entry with a
\* conversation subentry, and the same entry not loaded.
EarlierSubentry ==
    [subentry_type |-> "conversation", title |-> "first_agent",
     data |-> [model |-> "gemini-3-flash-preview",
               description |-> "A test agent",
               instructions |-> "Be helpful"]]
EarlierEntry(state) ==
    [title |-> DEFAULT_TITLE, data |-> [api_key |-> "key_a"],
     state |-> state, subentries |-> <<EarlierSubentry>>]
Registries ==
    { <<>>, <<EarlierEntry("loaded")>>, <<EarlierEntry("not_loaded")>> }

\* The results of a flow step: async_show_form, async_create_entry,
\* async_abort, and the UnknownStep the flow manager raises.
ShowForm(step_id, errors) ==
    [type |-> "form", step_id |-> step_id, errors |-> errors]
CreateEntry(title, data) ==
    [type |-> "create_entry", title |-> title, data |-> data]
Abort(reason) == [type |-> "abort", reason |-> reason]
UnknownStep == [type |-> "error", error |-> "UnknownStep"]

\* Lines 48-111: the steps GoogleADKConfigFlowHandler defines, as the
\* methods async_step_<step>.
ConfigFlowSteps == {"user", "reauth", "reauth_confirm", "api"}

\* Lines 86-111: async_step_api.  _async_abort_entries_match aborts with
\* "already_configured" when an entry's data has every item of the input;
\* async_update_reload_and_abort replaces the entry's data and aborts with
\* the reason of the flow's source; a created entry is set up and loaded.
\* Gives the result and the config entries after the step.
async_step_api(source, entry, user_input, entries) ==
    IF user_input = None
    THEN [result |-> ShowForm("api", EmptyMap), entries |-> entries]
    ELSE IF \E i \in DOMAIN entries :
               \A k \in DOMAIN user_input[1] :
                  k \in DOMAIN entries[i].data
                  /\ entries[i].data[k] = user_input[1][k]
    THEN [result |-> Abort("already_configured"), entries |-> entries]
    ELSE IF source = "reauth"
    THEN [result |-> Abort("reauth_successful"),
          entries |-> [entries EXCEPT ![entry].data = user_input[1]]]
    ELSE [result |-> CreateEntry(DEFAULT_TITLE, user_input[1]),
          entries |-> Append(entries,
                             [title |-> DEFAULT_TITLE, data |-> user_input[1],
                              state |-> "loaded", subentries |-> <<>>])]

\* Lines 58-62.
async_step_user(source, entry, user_input, entries) ==
    async_step_api(source, entry, None, entries)

\* Lines 70-84.
async_step_reauth_confirm(source, entry, user_input, entries) ==
    IF user_input # None
    THEN async_step_api(source, entry, None, entries)
    ELSE [result |-> ShowForm("reauth_confirm", EmptyMap), entries |-> entries]

\* Lines 64-68.
async_step_reauth(source, entry, entry_data, entries) ==
    async_step_reauth_confirm(source, entry, None, entries)

\* The flow manager calls the handler's method async_step_<step_id>, and
\* raises UnknownStep when the handler has none.
ConfigFlowStep(step_id, source, entry, user_input, entries) ==
    CASE step_id = "user" -> async_step_user(source, entry, user_input, entries)
      [] step_id = "reauth" -> async_step_reauth(source, entry, user_input, entries)
      [] step_id = "reauth_confirm" ->
           async_step_reauth_confirm(source, entry, user_input, entries)
      [] step_id = "api" -> async_step_api(source, entry, user_input, entries)
      [] step_id \notin ConfigFlowSteps ->
           [result |-> UnknownStep, entries |-> entries]

\* A faulty variant of async_step_set_options, which leaves the name in
\* the data of the subentry it creates; SubentryFlowCreates rejects it.
async_step_set_options_keeps_name(source, entry, subentry, user_input, entries) ==
    IF entries[entry].state # "loaded"
    THEN [result |-> Abort("entry_not_loaded"), entries |-> entries]
    ELSE IF user_input = None
    THEN [result |-> ShowForm("set_options", EmptyMap), entries |-> entries]
    ELSE IF source = "user"
    THEN [result |-> CreateEntry(user_input[1][CONF_NAME], user_input[1]),
          entries |-> [entries EXCEPT ![entry].subentries =
                         Append(@, [subentry_type |-> "conversation",
                                    title |-> user_input[1][CONF_NAME],
                                    data |-> user_input[1]])]]
    ELSE [result |-> Abort("reconfigure_successful"),
          entries |-> [entries EXCEPT ![entry].subentries[subentry].data =
                         user_input[1]]]

\* Lines 134-169: async_step_set_options of LLMSubentryFlowHandler, which
\* is also its async_step_user and async_step_reconfigure (lines 171-172).
\* async_create_entry adds a subentry with the title and the data;
\* async_update_and_abort replaces the data of the reconfigured subentry
\* and aborts with "reconfigure_successful".
async_step_set_options(source, entry, subentry, user_input, entries) ==
    IF entries[entry].state # "loaded"
    THEN [result |-> Abort("entry_not_loaded"), entries |-> entries]
    ELSE IF user_input = None
    THEN [result |-> ShowForm("set_options", EmptyMap), entries |-> entries]
    ELSE IF source = "user"
    THEN [result |-> CreateEntry(user_input[1][CONF_NAME],
                                 Without(user_input[1], CONF_NAME)),
          entries |-> [entries EXCEPT ![entry].subentries =
                         Append(@, [subentry_type |-> "conversation",
                                    title |-> user_input[1][CONF_NAME],
                                    data |-> Without(user_input[1], CONF_NAME)])]]
    ELSE [result |-> Abort("reconfigure_successful"),
          entries |-> [entries EXCEPT ![entry].subentries[subentry].data =
                         user_input[1]]]

\* The subentries of all config entries.
RECURSIVE SubentryCount(_)
SubentryCount(entries) ==
    IF entries = <<>> THEN 0
    ELSE Len(Head(entries).subentries) + SubentryCount(Tail(entries))

\* A flow is at a form and waits for the user's input.
AtForm == flow.handler # "none" /\ flow.result.type = "form"

\* A faulty variant of async_setup_entry, which writes the entry's key
\* whether the variable is set or not; EnvironmentWrittenOnce rejects it.
async_setup_entry_overwrites(env, entry) ==
    Some(entry.data[CONF_API_KEY])

\* __init__.py, lines 22-26: os.environ["GOOGLE_API_KEY"] after
\* async_setup_entry of the entry, from its value env before.
async_setup_entry(env, entry) ==
    IF env = None
    THEN Some(entry.data[CONF_API_KEY])
    ELSE env

\* The entry a flow step has created (async_create_entry, config_flow.py
\* lines 101-106) is set up when the flow ends: the environment after it.
SetupCreated(env, before, after) ==
    IF Len(after) > Len(before)
    THEN async_setup_entry(env, after[Len(after)])
    ELSE env

\* What GOOGLE_API_KEY holds when Home Assistant starts: unset, or the key
\* the process was given, or the key an earlier setup has written.
ENV_KEY == "key_env"
Environments == {None, Some(ENV_KEY), Some("key_a")}

\* hass.config_entries.flow.async_init(DOMAIN, context={"source": source,
\* "entry_id": ...}): the first step of a config flow is the step named
\* by its source.  entry is 0 for a flow the user starts.
ConfigFlowInit(source, entry) ==
    /\ ~AtForm
    /\ \/ source = "user" /\ entry = 0
       \/ source \in {"reauth", "reconfigure"} /\ entry \in DOMAIN config_entries
    /\ LET r == ConfigFlowStep(source, source, entry,
                               IF source = "reauth"
                               THEN Some(config_entries[entry].data) ELSE None,
                               config_entries)
       IN /\ flow' = [handler |-> "config", source |-> source,
                      entry |-> entry, subentry |-> 0, result |-> r.result]
          /\ config_entries' = r.entries
          /\ environ' = SetupCreated(environ, config_entries, r.entries)
    /\ UNCHANGED <<store, service_vars, peer>>

\* hass.config_entries.flow.async_configure(flow_id, user_input): the step
\* of the form shown last runs with the user's input.
ConfigFlowConfigure(user_input) ==
    /\ AtForm
    /\ flow.handler = "config"
    /\ user_input \in (IF flow.result.step_id = "api"
                       THEN ApiInputs ELSE ConfirmInputs)
    /\ LET r == ConfigFlowStep(flow.result.step_id, flow.source, flow.entry,
                               Some(user_input), config_entries)
       IN /\ flow' = [flow EXCEPT !.result = r.result]
          /\ config_entries' = r.entries
          /\ environ' = SetupCreated(environ, config_entries, r.entries)
    /\ UNCHANGED <<store, service_vars, peer>>

\* hass.config_entries.subentries.async_init((entry_id, "conversation"),
\* context={"source": source, "subentry_id": ...}): the first step of the
\* subentry flow, async_step_user or async_step_reconfigure.  subentry is
\* 0 for a flow the user starts.
SubentryFlowInit(source, entry, subentry) ==
    /\ ~AtForm
    /\ entry \in DOMAIN config_entries
    /\ \/ /\ source = "user"
          /\ subentry = 0
          /\ SubentryCount(config_entries) < MaxSubentries
       \/ /\ source = "reconfigure"
          /\ subentry \in DOMAIN config_entries[entry].subentries
    /\ LET r == async_step_set_options(source, entry, subentry, None,
                                       config_entries)
       IN /\ flow' = [handler |-> "subentry", source |-> source,
                      entry |-> entry, subentry |-> subentry,
                      result |-> r.result]
          /\ config_entries' = r.entries
    /\ UNCHANGED <<store, service_vars, peer, environ>>

\* hass.config_entries.subentries.async_configure(flow_id, user_input) on
\* the form "set_options".
SubentryFlowConfigure(user_input) ==
    /\ AtForm
    /\ flow.handler = "subentry"
    /\ user_input \in (IF flow.source = "user"
                       THEN NewSubentryInputs ELSE ReconfigureInputs)
    /\ LET r == async_step_set_options(flow.source, flow.entry, flow.subentry,
                                       Some(user_input), config_entries)
       IN /\ flow' = [flow EXCEPT !.result = r.result]
          /\ config_entries' = r.entries
    /\ UNCHANGED <<store, service_vars, peer, environ>>

\* __init__.py, lines 20-41: async_setup_entry and async_unload_entry,
\* which Home Assistant runs when an entry is loaded and unloaded (a
\* reload, lines 44-46, is the one after the other).  The setup leaves
\* os.environ as async_setup_entry gives it; the unload does not touch it.
EntryStateChange(entry) ==
    /\ entry \in DOMAIN config_entries
    /\ config_entries' =
         [config_entries EXCEPT ![entry].state =
            IF @ = "loaded" THEN "not_loaded" ELSE "loaded"]
    /\ environ' = IF config_entries[entry].state = "loaded"
                  THEN environ
                  ELSE async_setup_entry(environ, config_entries[entry])
    /\ UNCHANGED <<store, service_vars, peer, flow>>

\* The flows, on the config entries of Registries; the memory service is
\* constructed and not called.
InitFlows ==
    /\ ServiceInit
    /\ store = None
    /\ ~_summarize
    /\ peer = PeerNew
    /\ config_entries \in Registries
    /\ flow = NoFlow
    /\ environ \in Environments
    /\ build = NoBuild
    /\ (\E i \in DOMAIN config_entries : config_entries[i].state = "loaded")
          => environ # None

NextFlows ==
    \/ \E source \in {"user", "reauth", "reconfigure"},
          entry \in 0..Len(config_entries) :
         ConfigFlowInit(source, entry)
    \/ \E user_input \in ApiInputs \cup ConfirmInputs :
         ConfigFlowConfigure(user_input)
    \/ \E source \in {"user", "reconfigure"},
          entry \in DOMAIN config_entries, subentry \in 0..MaxSubentries :
         SubentryFlowInit(source, entry, subentry)
    \/ \E user_input \in NewSubentryInputs \cup ReconfigureInputs :
         SubentryFlowConfigure(user_input)
    \/ \E entry \in DOMAIN config_entries : EntryStateChange(entry)

SpecFlows == InitFlows /\ [][NextFlows]_vars

\* ------------------------------------------------ no failures, fair tasks

\* The steps of Next in which neither the Store nor the summarization
\* client raises.
NextNoFailures ==
    \/ \E c \in Callers, session \in Sessions : AddStart(c, session)
    \/ \E c \in Callers : AddLoaded(c)
    \/ \E c \in Callers : AddSaved(c)
    \/ \E c \in Callers, search \in Searches :
         SearchStart(c, search[1], search[2], search[3])
    \/ \E c \in Callers : SearchLoaded(c)
    \/ \E i \in DOMAIN tasks : TaskStart(i)
    \/ \E i \in DOMAIN tasks, summary_text \in ClientTexts :
         TaskGenerated(i, summary_text)
    \/ \E i \in DOMAIN tasks : TaskSaved(i)

\* A step of a background task: the event loop runs a task that is ready
\* (lines 212-214 hand the coroutine to hass.async_create_task), and the
\* client and the Store answer the calls awaited at lines 131 and 154.
TaskRuns ==
    \/ \E i \in DOMAIN tasks : TaskStart(i)
    \/ \E i \in DOMAIN tasks, summary_text \in ClientTexts :
         TaskGenerated(i, summary_text)
    \/ \E i \in DOMAIN tasks : TaskSaved(i)

SpecProgress == Init /\ [][NextNoFailures]_vars /\ WF_vars(TaskRuns)

\* A Store in which earlier runs have left 24 turns of u1, none of which
\* has text: the session s2 with one turn whose part has the text "",
\* ingested 24 times.
DocBlankNearThreshold ==
    Ingested(Session("s2", "u1", <<EvEmptyText>>), SUMMARIZATION_THRESHOLD - 1)

\* A summarizing service constructed on that Store.
InitBlankHistory ==
    /\ store = Some(DocBlankNearThreshold)
    /\ ingested = MapSet(EmptyMap, <<"app", "u1", "s2">>,
                         SUMMARIZATION_THRESHOLD - 1)
    /\ given = EmptyMap
    /\ generate_calls = EmptyMap
    /\ heap = <<EmptyMap>>
    /\ session_events = 1
    /\ _loaded = FALSE
    /\ _summarize = TRUE
    /\ _client = TRUE
    /\ _model_id = TRUE
    /\ _summarizing_lock = FALSE
    /\ _lock = FALSE
    /\ calls = [c \in Callers |-> Idle]
    /\ tasks = <<>>
    /\ ncalls = 0
    /\ peer = PeerNew
    /\ config_entries = <<>>
    /\ flow = NoFlow
    /\ environ = None
    /\ build = NoBuild

\* The service on the Stores of Init and on the Store without text.
SpecBlankHistory == (Init \/ InitBlankHistory) /\ [][Next]_vars

\* No call awaits store.async_load().
NoLoadPending ==
    \A c \in Callers : calls[c].pc \notin {"add_load", "search_load"}

\* SpecProgress when no call starts while the first load is pending: the
\* Store's load is then invoked once.
NextOneLoad ==
    \/ NoLoadPending
       /\ \E c \in Callers, session \in Sessions : AddStart(c, session)
    \/ \E c \in Callers : AddLoaded(c)
    \/ \E c \in Callers : AddSaved(c)
    \/ NoLoadPending
       /\ \E c \in Callers, search \in Searches :
            SearchStart(c, search[1], search[2], search[3])
    \/ \E c \in Callers : SearchLoaded(c)
    \/ \E i \in DOMAIN tasks : TaskStart(i)
    \/ \E i \in DOMAIN tasks, summary_text \in ClientTexts :
         TaskGenerated(i, summary_text)
    \/ \E i \in DOMAIN tasks : TaskSaved(i)

SpecOneLoad == Init /\ [][NextOneLoad]_vars /\ WF_vars(TaskRuns)

\* A background task exists only on a loaded instance.
TaskImpliesLoaded == tasks # <<>> => _loaded

\* The steps of the service when every save the Store is asked for
\* succeeds: Next without the two steps in which store.async_save raises.
NextSavesSucceed ==
    \/ \E c \in Callers, session \in Sessions : AddStart(c, session)
    \/ \E c \in Callers : AddLoaded(c)
    \/ \E c \in Callers : AddSaved(c)
    \/ \E c \in Callers, search \in Searches :
         SearchStart(c, search[1], search[2], search[3])
    \/ \E c \in Callers : SearchLoaded(c)
    \/ \E i \in DOMAIN tasks : TaskStart(i)
    \/ \E i \in DOMAIN tasks, summary_text \in ClientTexts :
         TaskGenerated(i, summary_text)
    \/ \E i \in DOMAIN tasks : TaskGenerateFailed(i)
    \/ \E i \in DOMAIN tasks : TaskSaved(i)

SpecSavesSucceed == Init /\ [][NextSavesSucceed]_vars

\* -------------------------------------------------------------- properties

\* The word tokens of a text given by its characters: its maximal runs of
\* letters, digits and underscores, in lower case.
IsRun(text, i, j) ==
    /\ i <= j
    /\ \A k \in i..j : text[k] \in WordChars
    /\ i = 1 \/ text[i - 1] \notin WordChars
    /\ j = Len(text) \/ text[j + 1] \notin WordChars

Tokens(text) ==
    {Lower(SubSeq(text, p[1], p[2])) :
        p \in {q \in (1..Len(text)) \X (1..Len(text)) : IsRun(text, q[1], q[2])}}

TokensOf == [text \in Texts |-> Tokens(Chars[text])]

\* The text of a stored turn or of a returned entry: its parts, joined.
PartsText(parts) == Join(" ", [i \in DOMAIN parts |-> parts[i].text])

\* The text of an event a caller submits: its parts with text, joined.
EventText(event) ==
    PartsText(SelectSeq(event.content[1].parts, LAMBDA part : part.text # ""))

RECURSIVE Flatten(_)
Flatten(seqs) ==
    IF seqs = <<>> THEN <<>> ELSE Head(seqs) \o Flatten(Tail(seqs))

\* The session ids of a user's dict, in insertion order.
SessionKeys(user_data) ==
    SelectSeq(user_data.keys, LAMBDA key : key \notin ReservedKeys)

\* The turns of a user in scan order: the summaries, then each session in
\* insertion order.
ScanOrder(user_data) ==
    DictGet(user_data, SUMMARIES_KEY, <<>>)
    \o Flatten([n \in DOMAIN SessionKeys(user_data) |->
                  user_data.val[SessionKeys(user_data)[n]]])

FilteredScan(doc, app_name, user_id, query) ==
    LET user_data == MapGet(doc, _user_key(app_name, user_id), EmptyDict)
        matching == SelectSeq(ScanOrder(user_data),
                              LAMBDA turn :
                                TokensOf[PartsText(turn.content.parts)]
                                \cap TokensOf[query] # {})
    IN [n \in DOMAIN matching |->
          [content |-> matching[n].content,
           author |-> matching[n].author,
           timestamp |-> IF matching[n].timestamp = None THEN ""
                         ELSE matching[n].timestamp[1]]]

\* C1: round trip through persistence.  When a call of
\* add_session_to_memory returns from its save with its turns still under
\* its session id in the document it saved, a new instance that hydrates
\* from the Store returns, for the same app and user and every query that
\* has a word token of an ingested turn with text, an entry whose text is
\* that turn's text.
RoundTrip ==
    [][\A c \in Callers :
         AddSaved(c) =>
           LET session == calls[c].session
               user_key == _user_key(session.app_name, session.user_id)
               saved == MapGet(heap[calls[c].obj], user_key, EmptyDict)
               fresh == Hydrated(store')
           IN DictGet(saved, session.id, <<>>) = SerializeEvents(session.events)
              => \A n \in DOMAIN session.events, query \in Queries :
                   ( /\ HasText(session.events[n])
                     /\ TokensOf[query]
                        \cap TokensOf[EventText(session.events[n])] # {} )
                   => \E entry \in Range(search_memory(fresh, session.app_name,
                                                       session.user_id, query)) :
                        PartsText(entry.content.parts)
                          = EventText(session.events[n])
      ]_vars

\* The Store holds a session saved for u2, and a new instance finds the
\* turn "a_b" of it for the query "1 A_b b".
RoundTripWitness ==
    /\ store # None
    /\ \E entry \in Range(search_memory(Hydrated(store), "app", "u2", QueryWords)) :
         PartsText(entry.content.parts) = TextPets

\* C2: search_memory returns exactly the filtered scan: of the user's
\* summaries and then of the user's sessions in insertion order, the turns
\* whose word tokens meet those of the query, each once, in scan order; a
\* turn or a query without tokens matches nothing.
SearchIsFilteredScan ==
    \A app_name \in Apps, user_id \in Users, query \in Queries :
       search_memory(Live, app_name, user_id, query)
         = FilteredScan(Live, app_name, user_id, query)

\* u1 has a summary and two sessions; "1 A_b b" finds the summary and
\* then the turn of the second session, and not the turn of the first.
SearchWitness ==
    LET user_data == MapGet(Live, _user_key("app", "u1"), EmptyDict)
        memories == search_memory(Live, "app", "u1", QueryWords)
    IN /\ Len(SessionKeys(user_data)) = 2
       /\ Len(ScanOrder(user_data)) = 3
       /\ Len(memories) = 2
       /\ memories[1].author = "memory_summarizer"
       /\ memories[2].author = "model"
       /\ search_memory(Live, "app", "u1", QueryNoWord) = <<>>

\* C3: user isolation.  Every entry search_memory returns for (app, user)
\* carries only texts that were ingested or summarized for (app, user);
\* what was given for another user is not returned.
UserIsolation ==
    \A app_name \in Apps, user_id \in Users, query \in Queries :
       \A entry \in Range(search_memory(Live, app_name, user_id, query)) :
          \A i \in DOMAIN entry.content.parts :
             entry.content.parts[i].text
               \in MapGet(given, <<app_name, user_id>>, {})

\* A summary was produced for u1 in this run and u2 has ingested turns;
\* each user's search returns entries.
IsolationWitness ==
    /\ MemorySummaryPrefix \o ClientText \in MapGet(given, <<"app", "u1">>, {})
    /\ MapGet(given, <<"app", "u2">>, {}) # {}
    /\ search_memory(Live, "app", "u1", QueryCase) # <<>>
    /\ search_memory(Live, "app", "u2", QueryWords) # <<>>

\* C4: once loaded, every user's total_turns equals the number of turns
\* with text ever ingested for the user.
TotalTurnsCountsTextTurns ==
    _loaded =>
      \A app_name \in Apps, user_id \in Users :
         TotalTurns(Live, _user_key(app_name, user_id))
           = MapGet(ingested, <<app_name, user_id>>, 0)

\* The documents in memory and in the Store.
Documents == Range(heap) \cup Range(store)

\* C5: in every document, in memory or in the Store, every user's
\* last_summarized_turn_count is at most the user's total_turns.
LastSummarizedAtMostTotal ==
    \A doc \in Documents, app_name \in Apps, user_id \in Users :
       LastSummarized(doc, _user_key(app_name, user_id))
         <= TotalTurns(doc, _user_key(app_name, user_id))

\* A summarization has committed while turns were added during its client
\* call: last_summarized_turn_count is positive and below total_turns.
LastSummarizedWitness ==
    /\ \E i \in DOMAIN tasks : tasks[i].pc = "saving"
    /\ LastSummarized(Live, _user_key("app", "u1")) > 0
    /\ LastSummarized(Live, _user_key("app", "u1"))
         < TotalTurns(Live, _user_key("app", "u1"))

\* The client is called only by a task that reads, under the summarizing
\* lock, total_turns - last_summarized_turn_count >= 25 for its user.
ClientCallAtThreshold ==
    [][\A i \in DOMAIN tasks :
         (TaskStart(i) /\ generate_calls' # generate_calls) =>
           LET user_key == _user_key(tasks[i].app_name, tasks[i].user_id)
           IN /\ _summarizing_lock'
              /\ TotalTurns(Live, user_key) - LastSummarized(Live, user_key)
                   >= SUMMARIZATION_THRESHOLD
      ]_vars

\* C6: the client is called for a user only at 25 turns or more above the
\* last summarized count; a user for whom fewer than 25 turns with text
\* were ever ingested has had no client call.
NoClientCallBelowThreshold ==
    \A app_name \in Apps, user_id \in Users :
       MapGet(ingested, <<app_name, user_id>>, 0) < SUMMARIZATION_THRESHOLD
         => MapGet(generate_calls, <<app_name, user_id>>, 0) = 0

\* C7: when a summarization succeeds for a user, the user's summaries in
\* the document in memory hold exactly one turn.
SuccessLeavesOneSummary ==
    [][\A i \in DOMAIN tasks :
         TaskSaved(i) =>
           LET user_key == _user_key(tasks[i].app_name, tasks[i].user_id)
           IN Len(DictGet(MapGet(Live', user_key, EmptyDict),
                          SUMMARIES_KEY, <<>>)) = 1
      ]_vars

\* A user's dict without what a summarization may write: the sessions and
\* total_turns.
Ingestion(user_data) ==
    [sessions |-> [key \in Range(SessionKeys(user_data)) |-> user_data.val[key]],
     order |-> SessionKeys(user_data),
     total_turns |-> MapGet(DictGet(user_data, METADATA_KEY, EmptyMap),
                            "total_turns", 0)]

\* A step of a summarization run.
TaskStep ==
    \E i \in DOMAIN tasks :
       \/ TaskStart(i)
       \/ \E summary_text \in ClientTexts : TaskGenerated(i, summary_text)
       \/ TaskGenerateFailed(i)
       \/ TaskSaved(i)
       \/ TaskSaveFailed(i)

\* C8: no step of a summarization run, whether the run succeeds, aborts or
\* fails, changes a session of a user, the order of the sessions or
\* total_turns in the document in memory, or the users that document has.
SummarizationKeepsSessions ==
    [][TaskStep =>
         /\ DOMAIN Live' = DOMAIN Live
         /\ \A user_key \in DOMAIN Live :
              Ingestion(Live'[user_key]) = Ingestion(Live[user_key])
      ]_vars

\* A summarization has committed its summary for u1, whose session is
\* still there and is found by a search.
KeepsSessionsWitness ==
    LET user_data == MapGet(Live, _user_key("app", "u1"), EmptyDict)
    IN /\ \E i \in DOMAIN tasks : tasks[i].pc = "saving"
       /\ DictGet(user_data, SUMMARIES_KEY, <<>>)
            = <<NewSummaryEvent(ClientText)>>
       /\ DictHas(user_data, "s1")
       /\ \E entry \in Range(search_memory(Live, "app", "u1", QueryCase)) :
            entry.author = "user"

\* C9: a call of add_session_to_memory with a session that has no turn
\* with text does not get as far as the save.
NoSaveWithoutText ==
    \A c \in Callers :
       calls[c].pc = "add_save" => TurnsWithText(calls[c].session.events) > 0

\* C10: every turn of every session, in every document in memory or in
\* the Store, has a part with text.
StoredTurnsHaveText ==
    \A doc \in Documents :
       \A user_key \in DOMAIN doc :
          \A key \in Range(SessionKeys(doc[user_key])) :
             \A turn \in Range(doc[user_key].val[key]) :
                \E i \in DOMAIN turn.content.parts :
                   turn.content.parts[i].text # ""

\* The document that add_session_to_memory of caller c is about to mutate
\* in a step that takes the call to its save: self._session_events, after
\* the load when the call was waiting for it.
DocToMutate(c) ==
    IF calls[c].pc = "add_load"
    THEN Hydrate(store)[1][Hydrate(store)[2]]
    ELSE Live

\* C11: re-ingestion replaces.  When add_session_to_memory stores a
\* session whose serialized events are already stored under its session
\* id for the user, then after the mutation the user's dict has the same
\* keys in the same order, the same sequence under that session id, and
\* search_memory returns for every query what it returned before: each
\* matching turn once.
ReingestionReplaces ==
    [][\A c \in Callers :
         (calls[c].pc # "add_save" /\ calls'[c].pc = "add_save") =>
           LET session == calls'[c].session
               user_key == _user_key(session.app_name, session.user_id)
               before == DocToMutate(c)
               user_before == MapGet(before, user_key, EmptyDict)
               user_after == MapGet(Live', user_key, EmptyDict)
           IN DictGet(user_before, session.id, <<>>)
                = SerializeEvents(session.events)
              => /\ user_after.keys = user_before.keys
                 /\ user_after.val[session.id] = user_before.val[session.id]
                 /\ \A query \in Queries :
                      search_memory(Live', session.app_name,
                                    session.user_id, query)
                        = search_memory(before, session.app_name,
                                        session.user_id, query)
      ]_vars

\* The session s1 of u1 with one turn was stored twice (total_turns is 2
\* and u1 has no other session): it holds one turn and the search for
\* "mY?" returns one entry.
ReingestionWitness ==
    LET user_key == _user_key("app", "u1")
        user_data == MapGet(Live, user_key, EmptyDict)
    IN /\ TotalTurns(Live, user_key) = 2
       /\ SessionKeys(user_data) = <<"s1">>
       /\ Len(user_data.val["s1"]) = 1
       /\ Len(search_memory(Live, "app", "u1", QueryCase)) = 1

\* The invocations of store.async_load() that a state shows: those that
\* calls are awaiting, and one more that has returned once self._loaded
\* is set (line 83 is the only assignment of True, after the await).
LoadsShown ==
    Cardinality({c \in Callers : calls[c].pc \in {"add_load", "search_load"}})
    + (IF _loaded THEN 1 ELSE 0)

\* C12: the Store's load is invoked at most once in the lifetime of the
\* instance, under any interleaving of the calls.
LoadInvokedAtMostOnce == LoadsShown <= 1

\* The summarization runs in flight: the tasks that have passed their
\* threshold check and await the client or the save of their commit.
InFlight == {i \in DOMAIN tasks : tasks[i].pc \in {"generating", "saving"}}

CallsNeverWaitForSummarization ==
    [](InFlight # {} =>
         \A c \in Callers :
            /\ calls[c].pc = "add_load" => ENABLED AddLoaded(c)
            /\ calls[c].pc = "search_load" => ENABLED SearchLoaded(c)
            /\ calls[c].pc = "add_save" => ENABLED AddSaved(c)
            /\ FreeCaller(c) =>
                 \A search \in Searches :
                    ENABLED SearchStart(c, search[1], search[2], search[3]))

\* A run holds the summarizing lock and awaits the client, while one call
\* of add_session_to_memory awaits its save and another caller is free.
NeverWaitWitness ==
    /\ _summarizing_lock
    /\ \E i \in DOMAIN tasks : tasks[i].pc = "generating"
    /\ \E c \in Callers : calls[c].pc = "add_save"
    /\ \E c \in Callers : FreeCaller(c)

\* C15: when the client raises, the run ends with the error swallowed and
\* nothing changed: the document in memory (summaries,
\* last_summarized_turn_count, sessions) and the Store are as they were, no
\* save is pending, the summarizing lock is free, and the user is still
\* at or above the threshold; a call of add_session_to_memory that returns
\* from its save with its count at or above the threshold schedules a
\* summarization again.
ClientFailureChangesNothing ==
    [][/\ \A i \in DOMAIN tasks :
            TaskGenerateFailed(i) =>
              LET user_key == _user_key(tasks[i].app_name, tasks[i].user_id)
              IN /\ Live' = Live
                 /\ Range(heap') \subseteq Range(heap)
                 /\ store' = store
                 /\ \A j \in DOMAIN tasks' : tasks'[j].pc = "scheduled"
                 /\ ~_summarizing_lock'
                 /\ TotalTurns(Live', user_key) - LastSummarized(Live', user_key)
                      >= SUMMARIZATION_THRESHOLD
       /\ \A c \in Callers :
            ( /\ AddSaved(c)
              /\ _summarize
              /\ calls[c].total_turns
                   - LastSummarized(heap[calls[c].obj],
                                    _user_key(calls[c].session.app_name,
                                              calls[c].session.user_id))
                   >= SUMMARIZATION_THRESHOLD )
            => /\ Len(tasks') = Len(tasks) + 1
               /\ tasks'[Len(tasks')].pc = "scheduled"
               /\ tasks'[Len(tasks')].user_id = calls[c].session.user_id
      ]_vars

\* The client raised in a first run for u1 (nothing is summarized, no
\* summary was produced) and a later add_session_to_memory has led to a
\* second client call.
ClientFailureWitness ==
    /\ MapGet(generate_calls, <<"app", "u1">>, 0) = 2
    /\ LastSummarized(Live, _user_key("app", "u1")) = 0
    /\ MemorySummaryPrefix \o ClientText \notin MapGet(given, <<"app", "u1">>, {})
    /\ \E i \in DOMAIN tasks : tasks[i].pc = "generating"

\* What a summarization commits for a user, in a document: the summaries
\* and last_summarized_turn_count.
SummaryState(doc, user_key) ==
    <<DictGet(MapGet(doc, user_key, EmptyDict), SUMMARIES_KEY, <<>>),
      LastSummarized(doc, user_key)>>

\* C16: the commit of a summarization is all or nothing.  When the save
\* of a run raises, the user's summaries and last_summarized_turn_count in
\* the document in memory are those of the persisted document: both have
\* the commit or neither has.
CommitAllOrNothing ==
    [][\A i \in DOMAIN tasks :
         TaskSaveFailed(i) =>
           LET user_key == _user_key(tasks[i].app_name, tasks[i].user_id)
           IN SummaryState(Live', user_key)
                = SummaryState(Hydrated(store'), user_key)
      ]_vars

\* C17: when the save of add_session_to_memory raises, the call ends
\* without scheduling a summarization and nothing is rolled back: the
\* Store and the document in memory are as before the step, and the
\* document the call mutated, when it is still self._session_events, has
\* the call's session id and at least the total_turns the call wrote.  A
\* save of self._session_events that succeeds later makes the Store equal
\* to the document in memory again.
SaveFailureKeepsMemory ==
    [][\A c \in Callers :
         /\ AddSaveFailed(c) =>
              LET session == calls[c].session
                  user_key == _user_key(session.app_name, session.user_id)
              IN /\ calls'[c] = Idle
                 /\ Len(tasks') = Len(tasks)
                 /\ \A i \in DOMAIN tasks : tasks'[i].pc = tasks[i].pc
                 /\ store' = store
                 /\ Live' = Live
                 /\ calls[c].obj = session_events =>
                      /\ DictHas(Live'[user_key], session.id)
                      /\ TotalTurns(Live', user_key) >= calls[c].total_turns
         /\ (AddSaved(c) /\ calls[c].obj = session_events) =>
              store' = Some(Live')
      ]_vars

\* The save of the call that took u1 from 24 to 25 turns raised: no call
\* is in flight, the document in memory has 25 turns, the Store still has
\* the 24, and although the service summarizes no task was scheduled and
\* the client was not called.
SaveFailureWitness ==
    /\ _summarize /\ _client /\ _model_id
    /\ \A c \in Callers : calls[c] = Idle
    /\ tasks = <<>>
    /\ MapGet(generate_calls, <<"app", "u1">>, 0) = 0
    /\ TotalTurns(Live, _user_key("app", "u1")) = SUMMARIZATION_THRESHOLD
    /\ store = Some(DocNearThreshold)

\* The number of turns stored under the session ids of a user's dict.
StoredTurns(user_data) ==
    Len(Flatten([n \in DOMAIN SessionKeys(user_data) |->
                   user_data.val[SessionKeys(user_data)[n]]]))

\* C18: the session write and the counter update of add_session_to_memory
\* become visible together.  In every state, which is what a concurrent
\* search or summarization step can observe, every user of every document
\* in memory has all the stored turns counted in total_turns and has a
\* session when total_turns is positive; and while a call awaits its
\* save, the document it mutated has its session id and at least the
\* total_turns it wrote.
TurnsVisibleWithCount ==
    /\ \A doc \in Range(heap) :
          \A user_key \in DOMAIN doc :
             /\ StoredTurns(doc[user_key]) <= TotalTurns(doc, user_key)
             /\ TotalTurns(doc, user_key) > 0
                  => SessionKeys(doc[user_key]) # <<>>
    /\ \A c \in Callers :
          calls[c].pc = "add_save" =>
            LET session == calls[c].session
                user_key == _user_key(session.app_name, session.user_id)
                doc == heap[calls[c].obj]
            IN /\ user_key \in DOMAIN doc
               /\ DictHas(doc[user_key], session.id)
               /\ TotalTurns(doc, user_key) >= calls[c].total_turns

\* A call of add_session_to_memory for u2 awaits its save, the other
\* caller is free, and a search for u2 on the document in memory finds a
\* turn of the session while total_turns counts its two turns.
TurnsVisibleWitness ==
    /\ \E c \in Callers :
          /\ calls[c].pc = "add_save"
          /\ calls[c].session.user_id = "u2"
    /\ \E c \in Callers : FreeCaller(c)
    /\ TotalTurns(Live, _user_key("app", "u2")) = 2
    /\ search_memory(Live, "app", "u2", QueryWords) # <<>>

\* No operation is in flight: no call and no background task.
Quiescent ==
    /\ \A c \in Callers : calls[c] = Idle
    /\ tasks = <<>>

\* C19: every mutating operation flushes the whole document.  Under
\* SpecSavesSucceed, where every issued save succeeds: whenever the
\* instance is loaded and no operation is in flight, the persisted
\* document equals the document in memory.
PersistedEqualsMemory ==
    (_loaded /\ Quiescent) => Hydrated(store) = Live

\* The commit of a run that still works on self._session_events records
\* the total_turns read at the threshold check; the turns added for the
\* user since the check stay above it.
CommitUsesCheckTimeCount ==
    [][\A i \in DOMAIN tasks, summary_text \in ClientTexts :
         (TaskGenerated(i, summary_text) /\ tasks[i].obj = session_events) =>
           LET user_key == _user_key(tasks[i].app_name, tasks[i].user_id)
           IN /\ LastSummarized(Live', user_key) = tasks[i].total_turns
              /\ TotalTurns(Live', user_key) - LastSummarized(Live', user_key)
                   = TotalTurns(Live, user_key) - tasks[i].total_turns
      ]_vars

\* C20: right after the commit of a successful summarization, the user's
\* last_summarized_turn_count in the document in memory is the
\* total_turns the run read at its threshold check, so that total_turns
\* exceeds it by the turns added for the user while the client call was
\* pending.
SummarizedCountIsCheckTime ==
    [][\A i \in DOMAIN tasks, summary_text \in ClientTexts :
         TaskGenerated(i, summary_text) =>
           LET user_key == _user_key(tasks[i].app_name, tasks[i].user_id)
           IN /\ LastSummarized(Live', user_key) = tasks[i].total_turns
              /\ TotalTurns(Live', user_key) - LastSummarized(Live', user_key)
                   = TotalTurns(Live, user_key) - tasks[i].total_turns
      ]_vars

\* C21: search_memory for an (app, user) without a record in the loaded
\* document returns no entries, whether the document is empty (the Store
\* held nothing) or holds only other users.
MissingRecordIsEmpty ==
    _loaded =>
      \A app_name \in Apps, user_id \in Users, query \in Queries :
         _user_key(app_name, user_id) \notin DOMAIN Live
           => search_memory(Live, app_name, user_id, query) = <<>>

\* A search has loaded a Store that holds turns of u1 only (no
\* add_session_to_memory was called): the search for u2 returns nothing
\* while the same query finds a turn of u1.
MissingRecordWitness ==
    /\ _loaded
    /\ ncalls = 0
    /\ DOMAIN Live = {_user_key("app", "u1")}
    /\ search_memory(Live, "app", "u2", QueryWords) = <<>>
    /\ search_memory(Live, "app", "u1", QueryWords) # <<>>

\* The texts of the entries of a search response.
ResponseTexts(memories) ==
    UNION {{entry.content.parts[i].text : i \in DOMAIN entry.content.parts}
           : entry \in Range(memories)}

\* Each instance's searches return only texts that were given to that
\* instance (or that its own Store held before).
InstancesApart ==
    \A app_name \in Apps, user_id \in Users, query \in Queries :
       /\ ResponseTexts(search_memory(peer.session_events,
                                      app_name, user_id, query))
            \subseteq MapGet(peer.given, <<app_name, user_id>>, {})
       /\ ResponseTexts(search_memory(Live, app_name, user_id, query))
            \subseteq MapGet(given, <<app_name, user_id>>, {})

\* C22: instance isolation.  With distinct storage keys, the session last
\* added through the second instance is returned by that instance's search
\* (for every query that has a word token of one of its turns with text), and
\* no search of either instance ever returns a text that was given only
\* to the other.
InstanceIsolation ==
    /\ peer.added # None =>
         LET session == peer.added[1]
         IN \A n \in DOMAIN session.events, query \in Queries :
               ( /\ HasText(session.events[n])
                 /\ TokensOf[query]
                    \cap TokensOf[EventText(session.events[n])] # {} )
               => \E entry \in Range(search_memory(peer.session_events,
                                                   session.app_name,
                                                   session.user_id, query)) :
                    PartsText(entry.content.parts)
                      = EventText(session.events[n])
    /\ InstancesApart

\* As in test_memory_service_isolation, with the instances swapped: the
\* second instance was given a turn of u1 that the first, loaded from an
\* empty Store, was not given; the second finds it and the first, searched
\* for the same user and query, finds nothing.
InstanceIsolationWitness ==
    /\ _loaded
    /\ peer._loaded
    /\ store = None
    /\ search_memory(peer.session_events, "app", "u1", QueryCase) # <<>>
    /\ search_memory(Live, "app", "u1", QueryCase) = <<>>

\* C23: a subentry flow of type "conversation" that the user starts for a
\* loaded config entry first shows the form "set_options" without errors;
\* when name, model, description and instructions are submitted (the
\* entry still loaded) the flow creates one subentry, whose title is the
\* name and whose data are exactly the three other fields: the entry has
\* one subentry more, at the end, and nothing else has changed.
SubentryFlowCreates ==
    [][ /\ \A entry \in DOMAIN config_entries :
             ( /\ SubentryFlowInit("user", entry, 0)
               /\ config_entries[entry].state = "loaded" )
             => /\ flow'.result = ShowForm("set_options", EmptyMap)
                /\ config_entries' = config_entries
        /\ \A user_input \in NewSubentryInputs :
             ( /\ SubentryFlowConfigure(user_input)
               /\ flow.source = "user"
               /\ config_entries[flow.entry].state = "loaded" )
             => LET data == [model |-> user_input.model,
                             description |-> user_input.description,
                             instructions |-> user_input.instructions]
                    subentries == config_entries[flow.entry].subentries
                IN /\ flow'.result = CreateEntry(user_input.name, data)
                   /\ config_entries' =
                        [config_entries EXCEPT ![flow.entry].subentries =
                           Append(subentries,
                                  [subentry_type |-> "conversation",
                                   title |-> user_input.name,
                                   data |-> data])]
      ]_vars

\* As in test_conversation_agent_subentry: the loaded entry that had one
\* subentry has two after the user's flow created "assistant_agent".
SubentryFlowWitness ==
    /\ flow.handler = "subentry"
    /\ flow.source = "user"
    /\ flow.result.type = "create_entry"
    /\ flow.result.title = "assistant_agent"
    /\ DOMAIN flow.result.data = {CONF_MODEL, CONF_DESCRIPTION, CONF_INSTRUCTIONS}
    /\ config_entries[flow.entry].state = "loaded"
    /\ Len(config_entries[flow.entry].subentries) = 2
    /\ config_entries[flow.entry].subentries[1] = EarlierSubentry
    /\ config_entries[flow.entry].subentries[2].title = "assistant_agent"

\* C24: a config flow started with source "reconfigure" for an existing
\* entry shows the form "reconfigure" without errors and, once a new API
\* key is submitted, has aborted with "reconfigure_successful".  (Stated
\* on the flow's result: it is one of the two.)
ReconfigureFlowShowsForm ==
    (flow.handler = "config" /\ flow.source = "reconfigure")
      => \/ flow.result = ShowForm("reconfigure", EmptyMap)
         \/ flow.result = Abort("reconfigure_successful")

\* A summarizing service, all of whose stored turns have text, has a task
\* scheduled for (app, user) and its document has SUMMARIZATION_THRESHOLD
\* or more turns of the user above the count last summarized.
Due(app_name, user_id) ==
    /\ _summarize /\ _client /\ _model_id
    /\ StoredTurnsHaveText
    /\ \E i \in DOMAIN tasks :
         /\ tasks[i].pc = "scheduled"
         /\ tasks[i].app_name = app_name
         /\ tasks[i].user_id = user_id
    /\ TotalTurns(Live, _user_key(app_name, user_id))
       - LastSummarized(Live, _user_key(app_name, user_id))
         >= SUMMARIZATION_THRESHOLD

\* A run for (app, user) holds the summarizing lock.
Running(app_name, user_id) ==
    \E i \in InFlight :
       tasks[i].app_name = app_name /\ tasks[i].user_id = user_id

\* The counts last summarized that a user who is due may have: none, or
\* that of the summary an earlier run of the service has left (Histories).
\* Within a run of the model a user is due again only
\* SUMMARIZATION_THRESHOLD turns after a commit.
PriorCounts == {0, SUMMARIZATION_THRESHOLD}

\* Once a task is scheduled for a user who is due and no run for the user
\* is under way, the client is eventually invoked for the user.
ClientEventuallyInvoked ==
    \A app_name \in Apps, user_id \in Users, n \in 0..(MaxCalls + 1) :
       ( /\ Due(app_name, user_id)
         /\ ~Running(app_name, user_id)
         /\ MapGet(generate_calls, <<app_name, user_id>>, 0) = n )
       ~> (MapGet(generate_calls, <<app_name, user_id>>, 0) > n)

\* C25: progress of summarization.  With summarization enabled, a client
\* and a Store that never fail, every stored turn with text and tasks
\* scheduled fairly: whenever a task is scheduled for a user whose
\* total_turns is SUMMARIZATION_THRESHOLD or more above
\* last_summarized_turn_count, the client is eventually invoked for the
\* user and last_summarized_turn_count eventually increases.
SummarizationProgress ==
    /\ ClientEventuallyInvoked
    /\ \A app_name \in Apps, user_id \in Users, n \in PriorCounts :
          ( /\ Due(app_name, user_id)
            /\ LastSummarized(Live, _user_key(app_name, user_id)) = n )
          ~> (LastSummarized(Live, _user_key(app_name, user_id)) > n)

\* C26: a backlog is summarized at most once.  When neither the client
\* nor the Store fails, every invocation of the client for a user accounts
\* for SUMMARIZATION_THRESHOLD turns of the user that no earlier
\* invocation accounted for: the user's total_turns is at least
\* SUMMARIZATION_THRESHOLD times the number of invocations, so that 24
\* turns and then a 25th yield one invocation, however many tasks were
\* scheduled.
BacklogSummarizedOnce ==
    _loaded =>
      \A app_name \in Apps, user_id \in Users :
         SUMMARIZATION_THRESHOLD
           * MapGet(generate_calls, <<app_name, user_id>>, 0)
           <= TotalTurns(Live, _user_key(app_name, user_id))

RunAbortsWithoutEffect ==
    [][ \A i \in DOMAIN tasks :
          ( /\ TaskStart(i)
            /\ _summarize /\ _client /\ _model_id
            /\ LET user_key == _user_key(tasks[i].app_name, tasks[i].user_id)
               IN \/ TotalTurns(Live, user_key) - LastSummarized(Live, user_key)
                       < SUMMARIZATION_THRESHOLD
                  \/ Transcript(MapGet(Live, user_key, EmptyDict)) = <<>> )
          => /\ tasks' = RemoveAt(tasks, i)
             /\ UNCHANGED <<generate_calls, store, heap, session_events,
                            calls, _summarizing_lock, given>>
      ]_vars

\* The 25th turn without text of u1 was stored and saved by a summarizing
\* service; the task it scheduled found the threshold reached and the
\* transcript empty, and has ended without a client call.
RunAbortsWitness ==
    /\ _summarize /\ _client /\ _model_id
    /\ Quiescent
    /\ store = Some(Live)
    /\ TotalTurns(Live, _user_key("app", "u1")) = SUMMARIZATION_THRESHOLD
    /\ LastSummarized(Live, _user_key("app", "u1")) = 0
    /\ Transcript(MapGet(Live, _user_key("app", "u1"), EmptyDict)) = <<>>
    /\ generate_calls = EmptyMap

\* C29: frame of add_session_to_memory.  The step in which a call stores a
\* session (whose id, as for all sessions of the model, is not a reserved
\* key) changes in the document only the entry of that session id in the
\* dict of the session's user, which becomes the serialized events, and
\* the user's total_turns, which grows by the number of turns stored: the
\* dicts of other users, the user's other sessions, the user's summaries
\* and last_summarized_turn_count are as before, and so is the Store.
AddChangesOnlyItsSession ==
    [][\A c \in Callers :
         (calls[c].pc # "add_save" /\ calls'[c].pc = "add_save") =>
           LET session == calls'[c].session
               user_key == _user_key(session.app_name, session.user_id)
               before == DocToMutate(c)
               after == Live'
               user_before == MapGet(before, user_key, EmptyDict)
               user_after == after[user_key]
               metadata_before == DictGet(user_before, METADATA_KEY, EmptyMap)
               metadata_after == user_after.val[METADATA_KEY]
               serializable_events == SerializeEvents(session.events)
           IN /\ session.id \notin ReservedKeys
              /\ DOMAIN after = DOMAIN before \cup {user_key}
              /\ \A key \in DOMAIN before \ {user_key} :
                    after[key] = before[key]
              /\ Range(user_after.keys)
                   = Range(user_before.keys) \cup {session.id, METADATA_KEY}
              /\ \A key \in Range(user_before.keys) \ {session.id, METADATA_KEY} :
                    user_after.val[key] = user_before.val[key]
              /\ user_after.val[session.id] = serializable_events
              /\ DOMAIN metadata_after
                   = DOMAIN metadata_before \cup {"total_turns"}
              /\ \A key \in DOMAIN metadata_before \ {"total_turns"} :
                    metadata_after[key] = metadata_before[key]
              /\ metadata_after["total_turns"]
                   = MapGet(metadata_before, "total_turns", 0)
                     + Len(serializable_events)
              /\ store' = store
      ]_vars

\* A call has stored the session s2 of u1 and awaits its save, in a
\* document where u1 has another session, a summary and 25 turns counted
\* as summarized, and where u2 has a dict too.
AddFrameWitness ==
    \E c \in Callers :
       /\ calls[c].pc = "add_save"
       /\ calls[c].session.id = "s2"
       /\ calls[c].obj = session_events
       /\ LastSummarized(Live, _user_key("app", "u1")) = SUMMARIZATION_THRESHOLD
       /\ Len(SessionKeys(Live[_user_key("app", "u1")])) = 2
       /\ DictGet(Live[_user_key("app", "u1")], SUMMARIES_KEY, <<>>) # <<>>
       /\ _user_key("app", "u2") \in DOMAIN Live

\* What the steps of a search do, the hydration included.  A search on a
\* loaded instance changes nothing at all, and one that starts on an
\* instance not yet loaded only registers that it awaits the load.  The
\* step in which the load returns to a search changes nothing in the
\* Store, schedules no task and issues no save, and the live document
\* after it is the document the Store holds, or the live document as it
\* was when the Store holds none or an empty one, with no dict added for
\* the user searched for; every other document in memory is one that was
\* there.
SearchSteps ==
    /\ \A c \in Callers, search \in Searches :
          SearchStart(c, search[1], search[2], search[3])
          => /\ UNCHANGED <<store, heap, session_events, _loaded, tasks,
                            _summarizing_lock, generate_calls>>
             /\ \/ _loaded /\ UNCHANGED calls
                \/ ~_loaded /\ calls'[c].pc = "search_load"
    /\ \A c \in Callers :
          (calls[c].pc = "search_load" /\ calls'[c] = Idle)
          => /\ UNCHANGED <<store, tasks, _summarizing_lock, generate_calls>>
             /\ \A d \in Callers \ {c} : calls'[d].pc = calls[d].pc
             /\ Live' = IF store # None /\ store[1] # EmptyMap
                        THEN store[1] ELSE Live
             /\ Range(heap') \subseteq Range(heap) \cup Range(store)

\* A search saves nothing, schedules nothing, and changes the document
\* only by hydrating it from the Store.
SearchOnlyHydrates == [][SearchSteps]_vars

\* C30: search_memory is a pure read.  It changes no user's dict, creates
\* none for an unknown user, issues no save and schedules no task; the only
\* state it may change is the one hydration of the instance from the
\* Store: once the instance is loaded, no step of a search changes the
\* live document.
SearchIsPureRead ==
    [][ /\ SearchSteps
        /\ \A c \in Callers :
             (calls[c].pc = "search_load" /\ calls'[c] = Idle /\ _loaded)
             => Live' = Live
      ]_vars

\* The stored turns of a user, session after session in insertion order.
TurnsOf(user_data) ==
    Flatten([n \in DOMAIN SessionKeys(user_data) |->
               user_data.val[SessionKeys(user_data)[n]]])

\* C31: the prompt of a summarization.  In the step in which a run invokes
\* the client for a user, the contents it passes are, in this order: one
\* line "Previous Summary: <text>" per summary of the user's dict, one
\* line "<author>: <text>" for every stored turn with text of the user's
\* sessions as the dict has them at the threshold check, and the fixed
\* instruction; every text in it was ingested or summarized for this user.
PromptFromOwnRecord ==
    [][ \A i \in DOMAIN tasks :
          (TaskStart(i) /\ generate_calls' # generate_calls) =>
            LET who == <<tasks[i].app_name, tasks[i].user_id>>
                user_data == MapGet(Live, _user_key(who[1], who[2]), EmptyDict)
                summaries == DictGet(user_data, SUMMARIES_KEY, <<>>)
                turns == SelectSeq(TurnsOf(user_data),
                                   LAMBDA turn : PartsText(turn.content.parts) # "")
                prompt == summary_prompt(user_data)
            IN /\ prompt[1] =
                    [n \in DOMAIN summaries |->
                       <<"Previous Summary", PartsText(summaries[n].content.parts)>>]
                    \o [n \in DOMAIN turns |->
                          <<turns[n].author, PartsText(turns[n].content.parts)>>]
               /\ prompt[2] = _SUMMARIZE_MEMORY_PROMPT
               /\ \A n \in DOMAIN prompt[1] :
                     prompt[1][n][2] \in MapGet(given, who, {})
      ]_vars

\* A run for u1 awaits the client; the dict of u1 it read has a summary
\* and two sessions with text, which make a transcript of three lines, and
\* u2 has a dict with turns too.
PromptWitness ==
    \E i \in DOMAIN tasks :
       /\ tasks[i].pc = "generating"
       /\ tasks[i].user_id = "u1"
       /\ tasks[i].obj = session_events
       /\ Len(Transcript(Live[_user_key("app", "u1")])) = 3
       /\ Transcript(Live[_user_key("app", "u1")])[1][1] = "Previous Summary"
       /\ _user_key("app", "u2") \in DOMAIN Live

\* C32: no lost update from hydration.  Once the instance is loaded, no
\* step takes a user's dict out of the document in memory, lowers a
\* user's total_turns, or removes or changes a stored session, other than
\* the step in which add_session_to_memory stores that session id again.
NoLostUpdate ==
    [][ _loaded =>
          \A user_key \in DOMAIN Live :
             /\ user_key \in DOMAIN Live'
             /\ TotalTurns(Live', user_key) >= TotalTurns(Live, user_key)
             /\ \A key \in Range(SessionKeys(Live[user_key])) :
                   \/ \E c \in Callers :
                         /\ calls[c].pc # "add_save"
                         /\ calls'[c].pc = "add_save"
                         /\ calls'[c].session.id = key
                         /\ _user_key(calls'[c].session.app_name,
                                      calls'[c].session.user_id) = user_key
                   \/ /\ key \in Range(SessionKeys(Live'[user_key]))
                      /\ Live'[user_key].val[key] = Live[user_key].val[key]
      ]_vars

\* Line 45 puts no limit on app_name and user_id: pairs whose names
\* contain the separator "/", and a pair without it.
SlashPairs == { <<"a/b", "c">>, <<"a", "b/c">>, <<"a", "c">> }

\* The sessions and searches of callers with those names.
SlashSessions ==
    { [id |-> "s1", app_name |-> "a/b", user_id |-> "c", events |-> <<EvUser>>],
      [id |-> "s2", app_name |-> "a", user_id |-> "b/c", events |-> <<EvModel>>],
      [id |-> "s1", app_name |-> "a", user_id |-> "c", events |-> <<EvModel>>] }

SlashSearches ==
    { <<pair[1], pair[2], query>> : pair \in SlashPairs,
                                   query \in {QueryCase, QueryWords} }

\* A service that does not summarize, on an empty Store, called with
\* those names: the steps of its calls as in Next (no task is ever
\* created, line 209).
InitKeys ==
    /\ Init
    /\ store = None
    /\ ~_summarize

NextKeys ==
    \/ \E c \in Callers, session \in SlashSessions : AddStart(c, session)
    \/ \E c \in Callers : AddLoaded(c)
    \/ \E c \in Callers : AddSaved(c)
    \/ \E c \in Callers : AddSaveFailed(c)
    \/ \E c \in Callers, search \in SlashSearches :
         SearchStart(c, search[1], search[2], search[3])
    \/ \E c \in Callers : SearchLoaded(c)

SpecKeys == InitKeys /\ [][NextKeys]_vars

\* ------------------------------------------------------ agent construction

\* The nested async_create calls the interpreter allows before it raises
\* RecursionError (sys.getrecursionlimit() frames).
RecursionLimit == 4

\* The subentry ids of a config entry with three conversation subentries,
\* and the values of data["sub_agents"]: none, one id, the id of a
\* subentry that does not exist, two ids.
SubentryIds == {"agent_a", "agent_b", "agent_c"}
SubAgentLists ==
    { <<>>, <<"agent_a">>, <<"agent_b">>, <<"missing">>,
      <<"agent_b", "agent_c">> }

\* A loaded config entry whose subentries have the sub_agents of refs.
AgentEntry(refs) ==
    [title |-> DEFAULT_TITLE, data |-> [api_key |-> "key_a"],
     state |-> "loaded",
     subentries |->
       << [subentry_id |-> "agent_a", title |-> "agent_a",
           data |-> [sub_agents |-> refs["agent_a"]]],
          [subentry_id |-> "agent_b", title |-> "agent_b",
           data |-> [sub_agents |-> refs["agent_b"]]],
          [subentry_id |-> "agent_c", title |-> "agent_c",
           data |-> [sub_agents |-> refs["agent_c"]]] >>]

\* agent.py, lines 64-70: _sub_agent_entry, the first subentry of the
\* domain's entries with that id, or None.
_sub_agent_entry(entry_id, entries) ==
    LET found == { <<i, j>> \in (DOMAIN entries) \X (1..3) :
                     /\ j \in DOMAIN entries[i].subentries
                     /\ entries[i].subentries[j].subentry_id = entry_id }
    IN IF found = {} THEN None
       ELSE LET first == CHOOSE x \in found :
                           \A y \in found :
                              x[1] < y[1] \/ (x[1] = y[1] /\ x[2] <= y[2])
            IN Some(entries[first[1]].subentries[first[2]])

\* What an async_create call gives: the LlmAgent of lines 49-56 with its
\* sub_agents, or the RecursionError that leaves it.
LlmAgent(subentry_id, sub_agents) ==
    [type |-> "agent", subentry |-> subentry_id, sub_agents |-> sub_agents]
RecursionError == [type |-> "error", error |-> "RecursionError"]

\* agent.py, line 37: a call of async_create for a subentry, at the start
\* of the loop of line 78.
Frame(subentry_id) == [subentry |-> subentry_id, next |-> 1, sub_agents |-> <<>>]

\* conversation.py, lines 208-214: the conversation entity of a subentry
\* calls agent.async_create for its subentry.
BuildStart(subentry_id) ==
    /\ build.stack = <<>>
    /\ _sub_agent_entry(subentry_id, config_entries) # None
    /\ build' = [root |-> subentry_id, stack |-> <<Frame(subentry_id)>>,
                 result |-> None]
    /\ UNCHANGED <<store, service_vars_but_build, peer, config_entries, flow,
                   environ>>

\* agent.py, lines 42-61 and 77-88: the innermost async_create call goes
\* on to its next await or to its end.  With a sub_agents id left, it
\* skips the id of no subentry (lines 79-85) and calls async_create for
\* the subentry of the id (line 86), which the interpreter answers with
\* RecursionError when the calls are nested too deep; nothing catches the
\* error before conversation.py line 212, so it ends the whole
\* construction.  With no id left, it makes the agent and returns it to
\* the call that awaits it (line 87), or to the conversation entity.
BuildStep ==
    /\ build.stack # <<>>
    /\ LET depth == Len(build.stack)
           frame == build.stack[depth]
           subentry == _sub_agent_entry(frame.subentry, config_entries)[1]
           ids == IF "sub_agents" \in DOMAIN subentry.data
                  THEN subentry.data.sub_agents ELSE <<>>
       IN IF frame.next <= Len(ids)
          THEN IF _sub_agent_entry(ids[frame.next], config_entries) = None
               THEN build' = [build EXCEPT !.stack[depth].next = @ + 1]
               ELSE IF depth >= RecursionLimit
               THEN build' = [build EXCEPT !.stack = <<>>,
                                           !.result = Some(RecursionError)]
               ELSE build' = [build EXCEPT
                                !.stack = Append(@, Frame(ids[frame.next]))]
          ELSE LET agent == LlmAgent(frame.subentry, frame.sub_agents)
               IN IF depth = 1
                  THEN build' = [build EXCEPT !.stack = <<>>,
                                              !.result = Some(agent)]
                  ELSE build' =
                         [build EXCEPT
                            !.stack =
                               [SubSeq(@, 1, depth - 1) EXCEPT
                                  ![depth - 1] =
                                     [@ EXCEPT !.next = @ + 1,
                                               !.sub_agents = Append(@, agent)]]]
    /\ UNCHANGED <<store, service_vars_but_build, peer, config_entries, flow,
                   environ>>

\* The conversation entities of one config entry, whose subentries refer
\* to each other in every way SubAgentLists allows; the coroutine of an
\* async_create call is run on until it ends.
InitAgents ==
    /\ ServiceInit
    /\ store = None
    /\ ~_summarize
    /\ peer = PeerNew
    /\ \E refs \in [SubentryIds -> SubAgentLists] :
          config_entries = <<AgentEntry(refs)>>
    /\ flow = NoFlow
    /\ environ = Some("key_a")
    /\ build = NoBuild

NextAgents ==
    \/ \E subentry_id \in SubentryIds : BuildStart(subentry_id)
    \/ BuildStep

SpecAgents == InitAgents /\ [][NextAgents]_vars /\ WF_vars(BuildStep)

\* A summarizing service on the Store that holds 24 turns of one user:
\* the calls and the summarization runs they start, all steps of Next.
InitLocks ==
    /\ Init
    /\ store = Some(DocNearThreshold)
    /\ _summarize /\ _client /\ _model_id

SpecLocks == InitLocks /\ [][Next]_vars

\* The step a call in flight is waiting for: the return of the Store's
\* load or save.
CallCanStep(c) ==
    ENABLED (AddLoaded(c) \/ AddSaved(c) \/ AddSaveFailed(c) \/ SearchLoaded(c))

\* The step a task is waiting for (TaskEnabled): a run in its section waits for the
\* client or the Store; a scheduled task waits for its turn and for
\* self._summarizing_lock, which a run in its section holds.
TaskEnabled(i) ==
    ENABLED (\/ TaskStart(i)
             \/ \E summary_text \in ClientTexts : TaskGenerated(i, summary_text)
             \/ TaskGenerateFailed(i)
             \/ TaskSaved(i)
             \/ TaskSaveFailed(i))
TaskCanStep(i) ==
    \/ TaskEnabled(i)
    \/ /\ tasks[i].pc = "scheduled"
       /\ \E j \in DOMAIN tasks : j # i /\ TaskEnabled(j)

\* C33: lock discipline and deadlock freedom.  Between two steps (at
\* every await) self._lock is free, so no call or task awaits the Store or
\* the client while it holds it, and none holds it together with
\* self._summarizing_lock; self._summarizing_lock is held exactly while one
\* summarization run is between its first check and its end, so every end
\* of a run (early return, error of the client or of the save) has
\* released it; and every call in flight and every task can take a step,
\* or waits for a task that can: no interleaving deadlocks.
LockDiscipline ==
    /\ ~_lock
    /\ _summarizing_lock <=> InFlight # {}
    /\ Cardinality(InFlight) <= 1
    /\ \A c \in Callers : calls[c].pc # "idle" => CallCanStep(c)
    /\ \A i \in DOMAIN tasks : TaskCanStep(i)

\* A run has ended by an error of its save while a task made after it was
\* waiting, which now can start.
LockReleasedWitness ==
    /\ ~_summarizing_lock
    /\ tasks # <<>>
    /\ \E who \in DOMAIN generate_calls : generate_calls[who] > 0
    /\ store # None
    /\ \E user_key \in DOMAIN Live :
          /\ user_key \in DOMAIN store[1]
          /\ LastSummarized(Live, user_key)
                > LastSummarized(store[1], user_key)

\* The session ids of the sessions callers submit and of the histories.
SessionIds == {session.id : session \in Sessions} \cup {"s1", "s2"}

\* C34: for every user, total_turns of the document in memory is at
\* least the number of turns stored in the user's sessions, and it is
\* greater as soon as some session id of the user has been stored by more
\* than one call, since each call adds the whole length of the sequence
\* it stores, also when the sequence replaces an earlier one.
CountCoversStoredTurns ==
    _loaded =>
      \A app_name \in Apps, user_id \in Users :
         LET user_key == _user_key(app_name, user_id)
         IN /\ user_key \in DOMAIN Live =>
                 TotalTurns(Live, user_key) >= StoredTurns(Live[user_key])
            /\ \A id \in SessionIds :
                  MapGet(ingested, <<app_name, user_id, id>>, 0) > 1 =>
                     /\ user_key \in DOMAIN Live
                     /\ TotalTurns(Live, user_key)
                          > StoredTurns(Live[user_key])

\* The threshold is reached with fewer than 25 turns stored: a
\* summarization task is scheduled for a user whose sessions hold fewer
\* turns than the threshold.
ThresholdByReingestion ==
    \E i \in DOMAIN tasks :
       LET user_key == _user_key(tasks[i].app_name, tasks[i].user_id)
       IN /\ tasks[i].pc = "scheduled"
          /\ user_key \in DOMAIN Live
          /\ StoredTurns(Live[user_key]) < SUMMARIZATION_THRESHOLD

\* C35: the user key is injective.  Any two different (app_name, user_id)
\* pairs that have called the service have different keys in the
\* document, and what search_memory returns for a pair carries only texts
\* that were ingested for that pair, whatever the strings are.
UserKeyInjective ==
    /\ \A p \in DOMAIN given, q \in DOMAIN given :
          p # q => _user_key(p[1], p[2]) # _user_key(q[1], q[2])
    /\ \A pair \in SlashPairs, query \in Queries :
          ResponseTexts(search_memory(Live, pair[1], pair[2], query))
            \subseteq MapGet(given, pair, {})

\* Two pairs with different keys have records of their own, and each
\* one's search finds its own text.
KeysApartWitness ==
    /\ MapGet(given, <<"a/b", "c">>, {}) # {}
    /\ MapGet(given, <<"a", "c">>, {}) # {}
    /\ search_memory(Live, "a/b", "c", QueryCase) # <<>>
    /\ search_memory(Live, "a", "c", QueryWords) # <<>>

\* C36: agent construction terminates.  Every async_create call that a
\* conversation entity makes returns an agent, whatever the sub_agents of
\* the subentries are, also when a subentry lists itself or two subentries
\* list each other.
AgentConstructionReturns ==
    \A subentry_id \in SubentryIds :
       (build.stack # <<>> /\ build.root = subentry_id)
         ~> /\ build.stack = <<>>
            /\ build.root = subentry_id
            /\ build.result # None
            /\ build.result[1].type = "agent"

\* The subentries the call for subentry_id reaches through sub_agents.
RECURSIVE Reaches(_, _, _)
Reaches(subentry_id, entries, n) ==
    IF n = 0 \/ _sub_agent_entry(subentry_id, entries) = None THEN {}
    ELSE LET ids == Range(_sub_agent_entry(subentry_id, entries)[1]
                             .data.sub_agents)
         IN ids \cup UNION {Reaches(id, entries, n - 1) : id \in ids}

\* Without a cycle through sub_agents no construction ends in
\* RecursionError, and with one none returns an agent.
AcyclicConstructionReturns ==
    (build.stack = <<>> /\ build.result # None) =>
       (build.result[1].type = "agent"
          <=> \A id \in Reaches(build.root, config_entries, 3) \cup {build.root} :
                 id \notin Reaches(id, config_entries, 3))

\* The entries that a step sets up: those that are loaded after it and
\* were not before (created by a flow, or loaded again after an unload).
SetUpInStep ==
    {i \in DOMAIN config_entries' :
       /\ config_entries'[i].state = "loaded"
       /\ i \in DOMAIN config_entries => config_entries[i].state # "loaded"}

\* C37: async_setup_entry writes the entry's API key to GOOGLE_API_KEY
\* only when the variable is unset.  A step that finds it set leaves it as
\* it is, whether the step sets up a second entry, sets an entry up again
\* after its key was changed, or unloads an entry; and when it is unset
\* it stays unset until a setup, which writes the key of its entry.
EnvironmentWrittenOnce ==
    [][ /\ environ # None => environ' = environ
        /\ environ = None =>
              IF SetUpInStep = {}
              THEN environ' = None
              ELSE \E i \in SetUpInStep :
                      environ' = Some(config_entries'[i].data[CONF_API_KEY])
      ]_vars

\* The variable was unset when an entry with the key "key_b" was set up,
\* which wrote it; an entry with another key has been set up after that,
\* and the variable still holds "key_b".
EnvironmentKeptWitness ==
    /\ environ = Some("key_b")
    /\ Len(config_entries) = 2
    /\ \A i \in DOMAIN config_entries : config_entries[i].state = "loaded"
    /\ config_entries[1].data[CONF_API_KEY] = "key_a"
    /\ config_entries[2].data[CONF_API_KEY] = "key_b"

====
